---- MODULE Spec2Model ----
(***************************************************************************)
(* A model of simbody's ConstraintImpl (src/src/ConstraintImpl.h): the     *)
(* topological index map of a constraint, its construction-time constants  *)
(* and their setters, the stage gating of its queries, the extraction of   *)
(* constraint errors and multipliers from the solver's arrays, and the     *)
(* conversion of multipliers to body and mobility forces by each built-in  *)
(* constraint kind.                                                        *)
(*                                                                         *)
(* Conventions.                                                            *)
(*  - A failed assert / SimTK_ASSERT ends the call: the model is of the    *)
(*    build in which the assertions are compiled in.  A call that fails    *)
(*    reports ret.ok = FALSE and the reason in ret.err, and writes         *)
(*    nothing after the failing statement.                                 *)
(*  - Reals are integers.  Display constants are kept in hundredths        *)
(*    (0.05 is 5, 1 is 100, -1 is -100); vectors are integer triples and   *)
(*    rotations are signed permutation matrices.                           *)
(*  - Every action records the call it models in ret: its name, its        *)
(*    arguments, the realized stage it was made in, and its result.        *)
(***************************************************************************)
EXTENDS Integers, Sequences, FiniteSets, TLC

(***************************************************************************)
(* Bounds of the model.                                                    *)
(***************************************************************************)
\* The mechanism has mobilized bodies with global indices 0..NumBodies-1.
NumBodies == 3
\* At most this many constrained mobilizers are added to one constraint.
MaxMobilizers == 1
\* setDefaultNumConstraints is called with counts in 0..MaxEq.
MaxEq == 1
\* The other constraints of the mechanism own up to this many equations
\* of each category ahead of this constraint's.
MaxOtherEq == 1

VARIABLES
    kind,                                    \* which ConstraintImpl subclass
    stage,                                   \* stages realized: 0 none, i = StageOrder[1..i]
    myConstrainedBodies,                     \* ConstrainedBodyIndex -> MobilizedBodyIndex
    myMobilizedBody2ConstrainedBodyMap,      \* MobilizedBodyIndex -> ConstrainedBodyIndex
    myConstrainedMobilizers,                 \* ConstrainedMobilizerIndex -> MobilizedBodyIndex
    myMobilizedBody2ConstrainedMobilizerMap, \* MobilizedBodyIndex -> ConstrainedMobilizerIndex
    defaultMp, defaultMv, defaultMa,         \* default equation counts
    disp,                                    \* the kind's visualization constants
    geom,                                    \* the kind's geometric construction constants
    roles,                                   \* the kind's ConstrainedBody/MobilizerIndex members
    topoCache,                               \* the kind's mutable topology cache members
    cInfo,                                   \* this constraint's entry of the model cache
    ret,                                     \* the last call and its result
    bodyForcesInA,                           \* caller's body-force buffer after the call
    mobilityForces,                          \* caller's mobility-force buffer after the call
    generalizedForces,                       \* caller's generalized-force vector f after the call
    outbuf,                                  \* caller's Real* output array after the call
    sbCache                                  \* the State's position, velocity and acceleration caches

vars == <<kind, stage, myConstrainedBodies, myMobilizedBody2ConstrainedBodyMap,
          myConstrainedMobilizers, myMobilizedBody2ConstrainedMobilizerMap,
          defaultMp, defaultMv, defaultMa, disp, geom, roles, topoCache, cInfo, ret,
          bodyForcesInA, mobilityForces, generalizedForces, outbuf, sbCache>>

indexVars == <<myConstrainedBodies, myMobilizedBody2ConstrainedBodyMap,
               myConstrainedMobilizers, myMobilizedBody2ConstrainedMobilizerMap>>
countVars == <<defaultMp, defaultMv, defaultMa>>
kindVars  == <<kind, disp, geom, roles>>
bufVars   == <<bodyForcesInA, mobilityForces, generalizedForces, outbuf>>

\* The buffer variables hold what the last call was given, as it left them;
\* a call is given none of the buffers it does not take.
NoBuffers ==
    /\ bodyForcesInA' = <<>>
    /\ mobilityForces' = <<>>
    /\ generalizedForces' = <<>>
    /\ outbuf' = <<>>

(***************************************************************************)
(* Stages.                                                                 *)
(***************************************************************************)
StageOrder ==
    <<"Topology", "Model", "Instance", "Time", "Position", "Velocity", "Acceleration">>

Ord(name) == CHOOSE i \in 1..Len(StageOrder) : StageOrder[i] = name

StageRealized(st, name) == st >= Ord(name)

Bodies == 0..(NumBodies - 1)

Range(s) == {s[i] : i \in 1..Len(s)}

\* The empty std::map.
EmptyMap == [b \in {} |-> 0]

\* The result record of a call.
Ret(op, ok, err, val, args, pre) ==
    [op |-> op, ok |-> ok, err |-> err, val |-> val, args |-> args, pre |-> pre,
     applied |-> {}]

(***************************************************************************)
(* Vec3, Rotation, Transform and SpatialVec arithmetic.                    *)
(***************************************************************************)
Zero3 == <<0, 0, 0>>
VAdd(a, b) == <<a[1] + b[1], a[2] + b[2], a[3] + b[3]>>
VSub(a, b) == <<a[1] - b[1], a[2] - b[2], a[3] - b[3]>>
VNeg(a) == <<-a[1], -a[2], -a[3]>>
VScale(k, a) == <<k * a[1], k * a[2], k * a[3]>>
Dot(a, b) == a[1] * b[1] + a[2] * b[2] + a[3] * b[3]
\* a % b
Cross(a, b) == <<a[2] * b[3] - a[3] * b[2],
                 a[3] * b[1] - a[1] * b[3],
                 a[1] * b[2] - a[2] * b[1]>>
\* A rotation is the triple of its rows.
MatVec(R, v) == <<Dot(R[1], v), Dot(R[2], v), Dot(R[3], v)>>
Col(R, j) == <<R[1][j], R[2][j], R[3][j]>>
MatT(R) == <<Col(R, 1), Col(R, 2), Col(R, 3)>>
MatMul(R, S) == <<<<Dot(R[1], Col(S, 1)), Dot(R[1], Col(S, 2)), Dot(R[1], Col(S, 3))>>,
                  <<Dot(R[2], Col(S, 1)), Dot(R[2], Col(S, 2)), Dot(R[2], Col(S, 3))>>,
                  <<Dot(R[3], Col(S, 1)), Dot(R[3], Col(S, 2)), Dot(R[3], Col(S, 3))>>>>
IdentityR == <<<<1, 0, 0>>, <<0, 1, 0>>, <<0, 0, 1>>>>
RotZ90 == <<<<0, -1, 0>>, <<1, 0, 0>>, <<0, 0, 1>>>>
RotX90 == <<<<1, 0, 0>>, <<0, 0, -1>>, <<0, 1, 0>>>>
RotY90 == <<<<0, 0, 1>>, <<0, 1, 0>>, <<-1, 0, 0>>>>
\* X * p and ~X * p for a transform X = [R, T]
XformPoint(X, p) == VAdd(MatVec(X.R, p), X.T)
XformInvPoint(X, p) == MatVec(MatT(X.R), VSub(p, X.T))
\* SpatialVec(torque, force): element [0] is s[1] here, element [1] is s[2].
ZeroSpatial == <<Zero3, Zero3>>
SAdd(s, t) == <<VAdd(s[1], t[1]), VAdd(s[2], t[2])>>

(***************************************************************************)
(* The State's caches: for each mobilized body, by global index, its        *)
(* transform X_AB, spatial velocity V_AB = (w, v) and spatial acceleration  *)
(* A_AB = (b, a) in the ancestor frame, and its mobilizer's generalized     *)
(* speeds u and their derivatives udot (in halves).                         *)
(***************************************************************************)
\* The number of mobilities u of a mobilized body's mobilizer.
MobilizerNumU(b) == 1 + (b % 2)

\* X_AB of each mobilized body in the mechanism's default configuration.
DefaultPose(b) ==
    CASE b = 0 -> [R |-> IdentityR, T |-> Zero3]
      [] b = 1 -> [R |-> RotZ90, T |-> <<1, 0, 2>>]
      [] b = 2 -> [R |-> RotX90, T |-> <<0, 3, 1>>]
      [] OTHER -> [R |-> RotY90, T |-> <<2, 1, 0>>]

\* The caches of a State whose bodies have poses X and spatial velocities
\* and accelerations V and A, and whose every mobility has speed u and
\* acceleration udot.
SBCache(X(_), V(_), A(_), u, udot) ==
    [X |-> [b \in Bodies |-> X(b)],
     V |-> [b \in Bodies |-> V(b)],
     A |-> [b \in Bodies |-> A(b)],
     u |-> [b \in Bodies |-> [i \in 1..MobilizerNumU(b) |-> u]],
     udot |-> [b \in Bodies |-> [i \in 1..MobilizerNumU(b) |-> udot]]]

\* The mechanism at rest in its default configuration.
RestCache ==
    LET Still(b) == ZeroSpatial IN SBCache(DefaultPose, Still, Still, 0, 0)

AtRest == sbCache = RestCache

(***************************************************************************)
(* The topological index map.                                              *)
(***************************************************************************)
subsystemTopologyHasBeenRealized(st) == StageRealized(st, "Topology")

\* Mutant: the add is not refused after topology realization.
addConstrainedBody_NoFreeze(st, list, map, b) ==
    IF b \in DOMAIN map
    THEN [ok |-> FALSE, err |-> "ConfigurationError", ix |-> -1,
          list |-> list, map |-> map]
    ELSE [ok |-> TRUE, err |-> "", ix |-> Len(list),
          list |-> Append(list, b), map |-> map @@ (b :> Len(list))]

\* Adds global body b: the next dense local index, the body appended to the
\* list and entered in the ordered map.  Refused once topology is realized,
\* and for a body that is already one of this constraint's.
addConstrainedBody(st, list, map, b) ==
    IF subsystemTopologyHasBeenRealized(st) \/ b \in DOMAIN map
    THEN [ok |-> FALSE, err |-> "ConfigurationError", ix |-> -1,
          list |-> list, map |-> map]
    ELSE [ok |-> TRUE, err |-> "", ix |-> Len(list),
          list |-> Append(list, b), map |-> map @@ (b :> Len(list))]

addConstrainedMobilizer(st, list, map, b) ==
    IF subsystemTopologyHasBeenRealized(st) \/ b \in DOMAIN map
    THEN [ok |-> FALSE, err |-> "ConfigurationError", ix |-> -1,
          list |-> list, map |-> map]
    ELSE [ok |-> TRUE, err |-> "", ix |-> Len(list),
          list |-> Append(list, b), map |-> map @@ (b :> Len(list))]

\* Mutant: the range check admits c = size().
getMobilizedBodyIndexOfConstrainedBody_OffByOne(list, c) ==
    IF 0 <= c /\ c <= Len(list)
    THEN [ok |-> TRUE, err |-> "", val |-> IF c < Len(list) THEN list[c + 1] ELSE -1]
    ELSE [ok |-> FALSE, err |-> "assert", val |-> -1]

\* assert(0 <= c && c < (int)myConstrainedBodies.size()); return myConstrainedBodies[c];
getMobilizedBodyIndexOfConstrainedBody(list, c) ==
    IF 0 <= c /\ c < Len(list)
    THEN [ok |-> TRUE, err |-> "", val |-> list[c + 1]]
    ELSE [ok |-> FALSE, err |-> "assert", val |-> -1]

getMobilizedBodyIndexOfConstrainedMobilizer(list, c) ==
    IF 0 <= c /\ c < Len(list)
    THEN [ok |-> TRUE, err |-> "", val |-> list[c + 1]]
    ELSE [ok |-> FALSE, err |-> "assert", val |-> -1]

\* Mutant: the topology assertion is dropped.
getNumConstrainedBodies_Unchecked(st, list) ==
    [ok |-> TRUE, err |-> "", val |-> Len(list)]

\* SimTK_ASSERT(subsystemTopologyHasBeenRealized(), ...); return (int)size();
getNumConstrainedBodies(st, list) ==
    IF subsystemTopologyHasBeenRealized(st)
    THEN [ok |-> TRUE, err |-> "", val |-> Len(list)]
    ELSE [ok |-> FALSE, err |-> "PreconditionError", val |-> -1]

getNumConstrainedMobilizers(st, list) ==
    IF subsystemTopologyHasBeenRealized(st)
    THEN [ok |-> TRUE, err |-> "", val |-> Len(list)]
    ELSE [ok |-> FALSE, err |-> "PreconditionError", val |-> -1]

AddConstrainedBody ==
    \E b \in Bodies :
        LET r == addConstrainedBody(stage, myConstrainedBodies,
                                    myMobilizedBody2ConstrainedBodyMap, b) IN
        /\ myConstrainedBodies' = r.list
        /\ myMobilizedBody2ConstrainedBodyMap' = r.map
        /\ ret' = Ret("addConstrainedBody", r.ok, r.err, r.ix, <<b>>, stage)
        /\ UNCHANGED <<sbCache, kind, stage, myConstrainedMobilizers,
                       myMobilizedBody2ConstrainedMobilizerMap, countVars, disp,
                       geom, roles, topoCache, cInfo>>
        /\ NoBuffers

AddConstrainedMobilizer ==
    \E b \in Bodies :
        LET r == addConstrainedMobilizer(stage, myConstrainedMobilizers,
                                         myMobilizedBody2ConstrainedMobilizerMap, b) IN
        /\ r.ok => Len(myConstrainedMobilizers) < MaxMobilizers
        /\ myConstrainedMobilizers' = r.list
        /\ myMobilizedBody2ConstrainedMobilizerMap' = r.map
        /\ ret' = Ret("addConstrainedMobilizer", r.ok, r.err, r.ix, <<b>>, stage)
        /\ UNCHANGED <<sbCache, kind, stage, myConstrainedBodies,
                       myMobilizedBody2ConstrainedBodyMap, countVars, disp,
                       geom, roles, topoCache, cInfo>>
        /\ NoBuffers

GetMobilizedBodyIndexOfConstrainedBody ==
    \E c \in -1..NumBodies :
        LET r == getMobilizedBodyIndexOfConstrainedBody(myConstrainedBodies, c) IN
        /\ ret' = Ret("getMobilizedBodyIndexOfConstrainedBody", r.ok, r.err, r.val,
                      <<c>>, stage)
        /\ UNCHANGED <<sbCache, kind, stage, indexVars, countVars, disp, geom, roles,
                       topoCache, cInfo>>
        /\ NoBuffers

GetMobilizedBodyIndexOfConstrainedMobilizer ==
    \E c \in -1..NumBodies :
        LET r == getMobilizedBodyIndexOfConstrainedMobilizer(myConstrainedMobilizers, c) IN
        /\ ret' = Ret("getMobilizedBodyIndexOfConstrainedMobilizer", r.ok, r.err, r.val,
                      <<c>>, stage)
        /\ UNCHANGED <<sbCache, kind, stage, indexVars, countVars, disp, geom, roles,
                       topoCache, cInfo>>
        /\ NoBuffers

GetNumConstrainedBodies ==
    LET r == getNumConstrainedBodies(stage, myConstrainedBodies) IN
    /\ ret' = Ret("getNumConstrainedBodies", r.ok, r.err, r.val, <<>>, stage)
    /\ UNCHANGED <<sbCache, kind, stage, indexVars, countVars, disp, geom, roles,
                   topoCache, cInfo>>
    /\ NoBuffers

GetNumConstrainedMobilizers ==
    LET r == getNumConstrainedMobilizers(stage, myConstrainedMobilizers) IN
    /\ ret' = Ret("getNumConstrainedMobilizers", r.ok, r.err, r.val, <<>>, stage)
    /\ UNCHANGED <<sbCache, kind, stage, indexVars, countVars, disp, geom, roles,
                   topoCache, cInfo>>
    /\ NoBuffers

(***************************************************************************)
(* The constraint kinds: what each Impl constructor sets, and the          *)
(* geometric constants the kind's handle gives it.                         *)
(***************************************************************************)
BuiltInKinds == {"Rod", "PointInPlane", "PointOnLine", "ConstantAngle", "Ball",
                 "ConstantOrientation", "Weld", "NoSlip1D", "ConstantSpeed"}
Kinds == BuiltInKinds \cup {"Custom"}

\* ConstraintImpl(mp, mv, ma) as called by each kind's constructor.
KindDefaults(k) ==
    CASE k = "Rod"                 -> <<1, 0, 0>>
      [] k = "PointInPlane"        -> <<1, 0, 0>>
      [] k = "PointOnLine"         -> <<2, 0, 0>>
      [] k = "ConstantAngle"       -> <<1, 0, 0>>
      [] k = "Ball"                -> <<3, 0, 0>>
      [] k = "ConstantOrientation" -> <<3, 0, 0>>
      [] k = "Weld"                -> <<6, 0, 0>>
      [] k = "NoSlip1D"            -> <<0, 1, 0>>
      [] k = "ConstantSpeed"       -> <<0, 1, 0>>
      [] k = "Custom"              -> <<0, 0, 0>>

\* The visualization members as each constructor initializes them.
DispInit(k) ==
    CASE k = "Rod"           -> [pointRadius |-> -100]
      [] k = "PointInPlane"  -> [planeHalfWidth |-> 100, pointRadius |-> 5]
      [] k = "PointOnLine"   -> [lineHalfLength |-> 100, pointRadius |-> 5]
      [] k = "ConstantAngle" -> [axisLength |-> 100, axisThickness |-> 100]
      [] k = "Ball"          -> [defaultRadius |-> 10]
      [] k = "Weld"          -> [axisDisplayLength |-> -100,
                                 frameBColor |-> <<-100, -100, -100>>,
                                 frameFColor |-> <<-100, -100, -100>>]
      [] k = "NoSlip1D"      -> [directionLength |-> 100, pointRadius |-> 5]
      [] OTHER               -> [none |-> 0]

\* How many constrained bodies and constrained mobilizers the kind's handle
\* adds on construction, in the order of the kind's index members.
KindNumBodies(k) ==
    CASE k \in {"Rod", "PointInPlane", "PointOnLine", "ConstantAngle", "Ball",
                "ConstantOrientation", "Weld"} -> 2
      [] k = "NoSlip1D" -> 3
      [] OTHER -> 0

KindNumMobilizers(k) == IF k = "ConstantSpeed" THEN 1 ELSE 0

\* Geometric constants a handle may give the kind (in the kind's body frames);
\* a prescribed speed is in halves, as mobility speeds are (2.0 is 4).
KindGeoms(k) ==
    CASE k = "Rod" ->
            {[defaultPoint1 |-> Zero3, defaultPoint2 |-> Zero3, defaultRodLength |-> 1],
             [defaultPoint1 |-> <<1, 0, 0>>, defaultPoint2 |-> <<0, 2, 0>>,
              defaultRodLength |-> 2]}
      [] k = "PointInPlane" ->
            {[defaultPlaneNormal |-> <<0, 0, 1>>, defaultPlaneHeight |-> 1,
              defaultFollowerPoint |-> <<1, 0, 2>>]}
      [] k = "PointOnLine" ->
            {[defaultLineDirection |-> <<0, 0, 1>>, defaultPointOnLine |-> <<1, 1, 0>>,
              defaultFollowerPoint |-> <<0, 1, 2>>],
             [defaultLineDirection |-> <<1, 0, 0>>, defaultPointOnLine |-> Zero3,
              defaultFollowerPoint |-> <<2, 0, 1>>]}
      [] k = "ConstantAngle" ->
            {[defaultAxisB |-> <<1, 0, 0>>, defaultAxisF |-> <<0, 0, 1>>,
              defaultAngle |-> 90],
             [defaultAxisB |-> <<0, 1, 0>>, defaultAxisF |-> <<1, 0, 0>>,
              defaultAngle |-> 180]}
      [] k = "Ball" ->
            {[defaultPoint1 |-> Zero3, defaultPoint2 |-> Zero3],
             [defaultPoint1 |-> <<1, 2, 0>>, defaultPoint2 |-> <<0, 1, 1>>]}
      [] k = "ConstantOrientation" ->
            {[defaultRB |-> IdentityR, defaultRF |-> IdentityR],
             [defaultRB |-> RotZ90, defaultRF |-> RotX90]}
      [] k = "Weld" ->
            {[defaultFrameB |-> [R |-> IdentityR, T |-> Zero3],
              defaultFrameF |-> [R |-> IdentityR, T |-> Zero3]],
             [defaultFrameB |-> [R |-> RotY90, T |-> <<0, 1, 0>>],
              defaultFrameF |-> [R |-> RotZ90, T |-> <<2, 0, 1>>]]}
      [] k = "NoSlip1D" ->
            {[defaultNoSlipDirection |-> <<0, 1, 0>>, defaultContactPoint |-> <<1, 0, 0>>]}
      [] k = "ConstantSpeed" ->
            {[whichMobility |-> 0, prescribedSpeed |-> 4],
             [whichMobility |-> 1, prescribedSpeed |-> 4],
             [whichMobility |-> 0, prescribedSpeed |-> 1]}
      [] OTHER -> {[none |-> 0]}

\* The mutable topology cache members before any topology realization:
\* PointOnLine's x and y are default-constructed (NaN) unit vectors and
\* ConstantAngle's cosineOfDefaultAngle is NaN.
TopoCacheInit == [nan |-> TRUE, x |-> Zero3, y |-> Zero3, cosineOfDefaultAngle |-> 0]

\* The model-cache entry of a state whose Model stage is not realized.
NoInfo == [valid |-> FALSE, mp |-> 0, mv |-> 0, ma |-> 0,
           holo0 |-> -1, nonholo0 |-> -1, accOnly0 |-> -1,
           totalNumHolo |-> 0, totalNumNonholo |-> 0, totalNumAccOnly |-> 0]

NoRet == [op |-> "", ok |-> TRUE, err |-> "", val |-> -1, args |-> <<>>, pre |-> 0,
          applied |-> {}]

\* The dense list and the ordered map after the bodies of bs were added in order.
MapOf(bs) == [b \in Range(bs) |-> (CHOOSE i \in 1..Len(bs) : bs[i] = b) - 1]

InjectiveSeqs(n) ==
    {q \in [1..n -> Bodies] : \A i, j \in 1..n : q[i] = q[j] => i = j}

\* The state after ConstraintImpl(mp, mv, ma) and the kind's constructor, once
\* the handle has added bodies bs and mobilizers ms and set geometry g.
ConstraintImpl(k, counts, bs, ms, g) ==
    /\ kind = k
    /\ stage = 0
    /\ myConstrainedBodies = bs
    /\ myMobilizedBody2ConstrainedBodyMap = MapOf(bs)
    /\ myConstrainedMobilizers = ms
    /\ myMobilizedBody2ConstrainedMobilizerMap = MapOf(ms)
    /\ defaultMp = counts[1]
    /\ defaultMv = counts[2]
    /\ defaultMa = counts[3]
    /\ disp = DispInit(k)
    /\ geom = g
    /\ roles = [b |-> [i \in 1..Len(bs) |-> i - 1], m |-> [i \in 1..Len(ms) |-> i - 1]]
    /\ topoCache = TopoCacheInit
    /\ cInfo = NoInfo
    /\ ret = NoRet
    /\ bodyForcesInA = <<>>
    /\ mobilityForces = <<>>
    /\ generalizedForces = <<>>
    /\ outbuf = <<>>

\* A constraint of a kind as its own constructor makes it.
Constructed(k, bs, ms, g) == ConstraintImpl(k, KindDefaults(k), bs, ms, g)

(***************************************************************************)
(* Stage realization and invalidation.                                     *)
(***************************************************************************)
\* UnitVec3::perp() on an axis-aligned unit vector: cross the vector with
\* the coordinate axis of its smallest absolute component.
Perp(z) ==
    LET Abs(n) == IF n < 0 THEN -n ELSE n
        u == <<Abs(z[1]), Abs(z[2]), Abs(z[3])>>
        minAxis == IF u[1] <= u[2] THEN (IF u[1] <= u[3] THEN 1 ELSE 3)
                                   ELSE (IF u[2] <= u[3] THEN 2 ELSE 3)
        axis == [i \in 1..3 |-> IF i = minAxis THEN 1 ELSE 0]
    IN Cross(z, axis)

\* std::cos of an angle given in degrees, for the right angles.
Cos(deg) == CASE deg = 0 -> 1 [] deg = 90 -> 0 [] deg = 180 -> -1

\* Mutant: y = UnitVec3(x % defaultLineDirection);
realizeTopologyVirtual_LeftHanded(k, g, tc) ==
    CASE k = "PointOnLine" ->
            LET x == Perp(g.defaultLineDirection) IN
            [tc EXCEPT !.nan = FALSE, !.x = x, !.y = Cross(x, g.defaultLineDirection)]
      [] k = "ConstantAngle" ->
            [tc EXCEPT !.nan = FALSE, !.cosineOfDefaultAngle = Cos(g.defaultAngle)]
      [] OTHER -> tc

\* Mutant: realizeTopologyVirtual leaves the mutable members as they are.
realizeTopologyVirtual_Empty(k, g, tc) == tc

\* The kind's realizeTopologyVirtual: what it writes to the topology cache.
realizeTopologyVirtual(k, g, tc) ==
    CASE k = "PointOnLine" ->
            LET x == Perp(g.defaultLineDirection) IN
            [tc EXCEPT !.nan = FALSE, !.x = x, !.y = Cross(g.defaultLineDirection, x)]
      [] k = "ConstantAngle" ->
            [tc EXCEPT !.nan = FALSE, !.cosineOfDefaultAngle = Cos(g.defaultAngle)]
      [] OTHER -> tc

\* Mutant: the kind reports no acceleration-only equations.
calcNumConstraintEquationsVirtual_NoAccOnly(dmp, dmv, dma) == <<dmp, dmv, 0>>

\* mp = defaultMp; mv = defaultMv; ma = defaultMa;
\* No kind of this file overrides it.
calcNumConstraintEquationsVirtual(dmp, dmv, dma) == <<dmp, dmv, dma>>

\* calcNumConstraintEquations(s, mp, mv, ma)
calcNumConstraintEquations(dmp, dmv, dma) ==
    calcNumConstraintEquationsVirtual(dmp, dmv, dma)

\* Mutant: a category without equations gets the next free slot, not -1.
realizeModel_NoSentinel(n, before) ==
    [valid |-> TRUE, mp |-> n[1], mv |-> n[2], ma |-> n[3],
     holo0 |-> before[1], nonholo0 |-> before[2], accOnly0 |-> before[3],
     totalNumHolo    |-> before[1] + n[1],
     totalNumNonholo |-> before[2] + n[2],
     totalNumAccOnly |-> before[3] + n[3]]

\* Model-stage realization gives this constraint its equation counts and the
\* first slot of each category among the mechanism's equations: before holds
\* the equations of the constraints ahead of it.  A category without
\* equations gets -1.
realizeModel(n, before) ==
    [valid |-> TRUE, mp |-> n[1], mv |-> n[2], ma |-> n[3],
     holo0    |-> IF n[1] = 0 THEN -1 ELSE before[1],
     nonholo0 |-> IF n[2] = 0 THEN -1 ELSE before[2],
     accOnly0 |-> IF n[3] = 0 THEN -1 ELSE before[3],
     totalNumHolo    |-> before[1] + n[1],
     totalNumNonholo |-> before[2] + n[2],
     totalNumAccOnly |-> before[3] + n[3]]

\* invalidateTopologyCache(): realization falls back to below Topology.
invalidateTopologyCache(st) == 0

\* The owning mechanism realizes the next stage, calling this constraint's
\* realize method for it; others are the equation counts the constraints
\* ahead of this one may have in each category.
Realize(i, others) ==
    /\ stage = i - 1
    /\ stage' = i
    /\ topoCache' = IF StageOrder[i] = "Topology"
                    THEN realizeTopologyVirtual(kind, geom, topoCache)
                    ELSE topoCache
    /\ IF StageOrder[i] = "Model"
       THEN \E op, ov, oa \in others :
                cInfo' = realizeModel(
                    calcNumConstraintEquationsVirtual(defaultMp, defaultMv, defaultMa),
                    <<op, ov, oa>>)
       ELSE cInfo' = cInfo
    /\ ret' = Ret("realize", TRUE, "", i, <<i>>, stage)
    /\ UNCHANGED <<sbCache, kindVars, indexVars, countVars>>
    /\ NoBuffers

InvalidateTopologyCache ==
    /\ stage' = invalidateTopologyCache(stage)
    /\ cInfo' = NoInfo
    /\ ret' = Ret("invalidateTopologyCache", TRUE, "", -1, <<>>, stage)
    /\ UNCHANGED <<sbCache, kindVars, indexVars, countVars, topoCache>>
    /\ NoBuffers

\* Mutant: realizeInstance requires the Model stage.
realizeInstance_Checked(st) ==
    IF StageRealized(st, "Model") THEN [ok |-> TRUE, err |-> ""]
    ELSE [ok |-> FALSE, err |-> "PreconditionError"]

\* realizeInstance(s) { realizeInstanceVirtual(s); } with the empty hook.
realizeInstance(st) == [ok |-> TRUE, err |-> ""]

\* realizeTime(s) { realizeTimeVirtual(s); } with the empty hook.
realizeTime(st) == [ok |-> TRUE, err |-> ""]

RealizeInstance ==
    LET r == realizeInstance(stage) IN
    /\ ret' = Ret("realizeInstance", r.ok, r.err, -1, <<>>, stage)
    /\ UNCHANGED <<sbCache, kindVars, stage, indexVars, countVars, topoCache, cInfo>>
    /\ NoBuffers

RealizeTime ==
    LET r == realizeTime(stage) IN
    /\ ret' = Ret("realizeTime", r.ok, r.err, -1, <<>>, stage)
    /\ UNCHANGED <<sbCache, kindVars, stage, indexVars, countVars, topoCache, cInfo>>
    /\ NoBuffers

(***************************************************************************)
(* The mutators of construction-time data.  Each gives whether it calls    *)
(* invalidateTopologyCache() and the members after the call.               *)
(***************************************************************************)
\* Mutant: the counts are frozen once topology is realized.
setDefaultNumConstraints_Frozen(st, old, mp, mv, ma) ==
    IF mp >= 0 /\ mv >= 0 /\ ma >= 0 /\ ~subsystemTopologyHasBeenRealized(st)
    THEN [ok |-> TRUE, err |-> "", inval |-> TRUE, counts |-> <<mp, mv, ma>>]
    ELSE [ok |-> FALSE, err |-> "assert", inval |-> FALSE, counts |-> old]

\* assert(mp >= 0 && mv >= 0 && ma >= 0); invalidateTopologyCache(); default* = *;
setDefaultNumConstraints(st, old, mp, mv, ma) ==
    IF mp >= 0 /\ mv >= 0 /\ ma >= 0
    THEN [ok |-> TRUE, err |-> "", inval |-> TRUE, counts |-> <<mp, mv, ma>>]
    ELSE [ok |-> FALSE, err |-> "assert", inval |-> FALSE, counts |-> old]

RodImpl_setPointDisplayRadius(d, r) ==
    [inval |-> TRUE, disp |-> [d EXCEPT !.pointRadius = IF r > 0 THEN r ELSE 0]]

\* Real getPointDisplayRadius() const {return pointRadius;}
RodImpl_getPointDisplayRadius(d) == d.pointRadius

PointInPlaneImpl_setPlaneDisplayHalfWidth(d, h) ==
    [inval |-> TRUE, disp |-> [d EXCEPT !.planeHalfWidth = IF h > 0 THEN h ELSE 0]]

PointInPlaneImpl_setPointDisplayRadius(d, r) ==
    [inval |-> TRUE, disp |-> [d EXCEPT !.pointRadius = IF r > 0 THEN r ELSE 0]]

PointOnLineImpl_setLineDisplayHalfLength(d, h) ==
    [inval |-> TRUE, disp |-> [d EXCEPT !.lineHalfLength = IF h > 0 THEN h ELSE 0]]

PointOnLineImpl_setPointDisplayRadius(d, r) ==
    [inval |-> TRUE, disp |-> [d EXCEPT !.pointRadius = IF r > 0 THEN r ELSE 0]]

ConstantAngleImpl_setAxisLength(d, length) ==
    [inval |-> TRUE, disp |-> [d EXCEPT !.axisLength = IF length > 0 THEN length ELSE 0]]

ConstantAngleImpl_setAxisThickness(d, t) ==
    [inval |-> TRUE, disp |-> [d EXCEPT !.axisThickness = IF t > 0 THEN t ELSE 0]]

BallImpl_setDefaultRadius(d, r) ==
    [inval |-> TRUE, disp |-> [d EXCEPT !.defaultRadius = IF r > 0 THEN r ELSE 0]]

WeldImpl_setAxisDisplayLength(d, len) ==
    [inval |-> TRUE, disp |-> [d EXCEPT !.axisDisplayLength = IF len >= 0 THEN len ELSE -100]]

\* assert(which==0 || which==1) comes before invalidateTopologyCache().
WeldImpl_setFrameColor(d, which, color) ==
    IF which \notin {0, 1}
    THEN [ok |-> FALSE, err |-> "assert", inval |-> FALSE, disp |-> d]
    ELSE LET c == IF color[1] < 0 THEN <<-100, -100, -100>> ELSE color IN
         [ok |-> TRUE, err |-> "", inval |-> TRUE,
          disp |-> IF which = 0 THEN [d EXCEPT !.frameBColor = c]
                                ELSE [d EXCEPT !.frameFColor = c]]

\* Mutant: the setter forgets invalidateTopologyCache().
NoSlip1DImpl_setDirectionDisplayLength_NoInvalidate(d, l) ==
    [inval |-> FALSE, disp |-> [d EXCEPT !.directionLength = IF l > 0 THEN l ELSE 0]]

NoSlip1DImpl_setDirectionDisplayLength(d, l) ==
    [inval |-> TRUE, disp |-> [d EXCEPT !.directionLength = IF l > 0 THEN l ELSE 0]]

NoSlip1DImpl_setPointDisplayRadius(d, r) ==
    [inval |-> TRUE, disp |-> [d EXCEPT !.pointRadius = IF r > 0 THEN r ELSE 0]]

\* The Real-valued display setters of each kind, by the member they set.
SetterFields(k) ==
    CASE k = "Rod"           -> {"pointRadius"}
      [] k = "PointInPlane"  -> {"planeHalfWidth", "pointRadius"}
      [] k = "PointOnLine"   -> {"lineHalfLength", "pointRadius"}
      [] k = "ConstantAngle" -> {"axisLength", "axisThickness"}
      [] k = "Ball"          -> {"defaultRadius"}
      [] k = "Weld"          -> {"axisDisplayLength"}
      [] k = "NoSlip1D"      -> {"directionLength", "pointRadius"}
      [] OTHER               -> {}

CallSetter(k, field, d, v) ==
    CASE k = "Rod" -> RodImpl_setPointDisplayRadius(d, v)
      [] k = "PointInPlane" /\ field = "planeHalfWidth" ->
            PointInPlaneImpl_setPlaneDisplayHalfWidth(d, v)
      [] k = "PointInPlane" /\ field = "pointRadius" ->
            PointInPlaneImpl_setPointDisplayRadius(d, v)
      [] k = "PointOnLine" /\ field = "lineHalfLength" ->
            PointOnLineImpl_setLineDisplayHalfLength(d, v)
      [] k = "PointOnLine" /\ field = "pointRadius" ->
            PointOnLineImpl_setPointDisplayRadius(d, v)
      [] k = "ConstantAngle" /\ field = "axisLength" -> ConstantAngleImpl_setAxisLength(d, v)
      [] k = "ConstantAngle" /\ field = "axisThickness" ->
            ConstantAngleImpl_setAxisThickness(d, v)
      [] k = "Ball" -> BallImpl_setDefaultRadius(d, v)
      [] k = "Weld" -> WeldImpl_setAxisDisplayLength(d, v)
      [] k = "NoSlip1D" /\ field = "directionLength" ->
            NoSlip1DImpl_setDirectionDisplayLength(d, v)
      [] k = "NoSlip1D" /\ field = "pointRadius" -> NoSlip1DImpl_setPointDisplayRadius(d, v)

\* Values a caller passes to a display setter (hundredths).
DispInputs == {-100, 0, 50}
ColorInputs == {<<-100, 0, 0>>, <<50, 0, 100>>}

SetDefaultNumConstraints ==
    \E mp \in -1..MaxEq, mv, ma \in 0..MaxEq :
        LET r == setDefaultNumConstraints(stage, <<defaultMp, defaultMv, defaultMa>>,
                                         mp, mv, ma) IN
        /\ defaultMp' = r.counts[1]
        /\ defaultMv' = r.counts[2]
        /\ defaultMa' = r.counts[3]
        /\ stage' = IF r.inval THEN invalidateTopologyCache(stage) ELSE stage
        /\ cInfo' = IF r.inval THEN NoInfo ELSE cInfo
        /\ ret' = Ret("setDefaultNumConstraints", r.ok, r.err, -1, <<mp, mv, ma>>, stage)
        /\ UNCHANGED <<sbCache, kindVars, indexVars, topoCache>>
        /\ NoBuffers

SetDisplayConstant ==
    \E field \in SetterFields(kind), v \in DispInputs :
        LET r == CallSetter(kind, field, disp, v) IN
        /\ disp' = r.disp
        /\ stage' = IF r.inval THEN invalidateTopologyCache(stage) ELSE stage
        /\ cInfo' = IF r.inval THEN NoInfo ELSE cInfo
        /\ ret' = [Ret("set", TRUE, "", v, <<v>>, stage) EXCEPT !.applied = {field}]
        /\ UNCHANGED <<sbCache, kind, geom, roles, indexVars, countVars, topoCache>>
        /\ NoBuffers

WeldSetFrameColor ==
    /\ kind = "Weld"
    /\ \E which \in 0..2, color \in ColorInputs :
        LET r == WeldImpl_setFrameColor(disp, which, color) IN
        /\ disp' = r.disp
        /\ stage' = IF r.inval THEN invalidateTopologyCache(stage) ELSE stage
        /\ cInfo' = IF r.inval THEN NoInfo ELSE cInfo
        /\ ret' = Ret("setFrameColor", r.ok, r.err, which, color, stage)
        /\ UNCHANGED <<sbCache, kind, geom, roles, indexVars, countVars, topoCache>>
        /\ NoBuffers

CalcNumConstraintEquations ==
    /\ ret' = Ret("calcNumConstraintEquations", TRUE, "",
                  calcNumConstraintEquations(defaultMp, defaultMv, defaultMa), <<>>, stage)
    /\ UNCHANGED <<sbCache, kindVars, stage, indexVars, countVars, topoCache, cInfo>>
    /\ NoBuffers

(***************************************************************************)
(* SpecIndex: a constraint just constructed by ConstraintImpl(), whose     *)
(* constrained bodies and mobilizers are then added, around topology       *)
(* realization and invalidation.                                           *)
(***************************************************************************)
InitIndex == Constructed("Custom", <<>>, <<>>, [none |-> 0]) /\ AtRest

NextIndex ==
    \/ AddConstrainedBody
    \/ AddConstrainedMobilizer
    \/ GetMobilizedBodyIndexOfConstrainedBody
    \/ GetMobilizedBodyIndexOfConstrainedMobilizer
    \/ GetNumConstrainedBodies
    \/ GetNumConstrainedMobilizers
    \/ Realize(1, {0})
    \/ InvalidateTopologyCache

SpecIndex == InitIndex /\ [][NextIndex]_vars

(***************************************************************************)
(* SpecConfig: a constructed constraint of any kind whose construction-time *)
(* constants are set while the mechanism realizes and invalidates stages.  *)
(***************************************************************************)
FirstBodies(n) == [i \in 1..n |-> i - 1]

InitConfig ==
    /\ \E k \in Kinds :
        Constructed(k, FirstBodies(KindNumBodies(k)), FirstBodies(KindNumMobilizers(k)),
                    CHOOSE g \in KindGeoms(k) : TRUE)
    /\ AtRest

NextConfig ==
    \/ SetDefaultNumConstraints
    \/ SetDisplayConstant
    \/ WeldSetFrameColor
    \/ \E i \in 1..Len(StageOrder) : Realize(i, {0})
    \/ InvalidateTopologyCache
    \/ RealizeInstance
    \/ RealizeTime
    \/ CalcNumConstraintEquations

SpecConfig == InitConfig /\ [][NextConfig]_vars

(***************************************************************************)
(* Extraction of this constraint's errors and multipliers from the         *)
(* mechanism's arrays.                                                     *)
(***************************************************************************)
\* The mechanism's QErr, UErr, UDotErr and multiplier arrays of the state, by
\* global slot: every slot holds a value of its own.
QErr(i) == 100 + i
UErr(i) == 200 + i
UDotErr(i) == 300 + i
Multipliers(i) == 400 + i

\* getNumConstraintEquations: the counts of the model cache; State must be
\* realized to Stage::Model.
getNumConstraintEquations(st, ci) ==
    IF StageRealized(st, "Model")
    THEN [ok |-> TRUE, err |-> "", mp |-> ci.mp, mv |-> ci.mv, ma |-> ci.ma]
    ELSE [ok |-> FALSE, err |-> "PreconditionError", mp |-> -1, mv |-> -1, ma |-> -1]

\* The global slot of this constraint's j'th equation (j from 0) in the
\* velocity- and acceleration-level arrays:
\*    (holo0, mHolo) (totalNumHolo+nonholo0, mNonholo)
\*    (totalNumHolo+totalNumNonholo+accOnly0, mAccOnly)
getConstraintEquationSlots(ci, j) ==
    IF j < ci.mp THEN ci.holo0 + j
    ELSE IF j < ci.mp + ci.mv THEN ci.totalNumHolo + ci.nonholo0 + (j - ci.mp)
    ELSE ci.totalNumHolo + ci.totalNumNonholo + ci.accOnly0 + (j - ci.mp - ci.mv)

\* getConstraintEquationSlots(s, holo0, nonholo0, accOnly0): the first slot of
\* each category, -1 for a category without equations; State must be
\* realized to Stage::Model.
getConstraintEquationSlotsOf(st, ci) ==
    IF StageRealized(st, "Model")
    THEN [ok |-> TRUE, err |-> "", val |-> <<ci.holo0, ci.nonholo0, ci.accOnly0>>]
    ELSE [ok |-> FALSE, err |-> "PreconditionError", val |-> <<>>]

\* The caller's array after the first n entries were written.
WriteOut(out, n, Val(_)) ==
    [i \in 1..Len(out) |-> IF i <= n THEN Val(i - 1) ELSE out[i]]

getPositionErrors(st, ci, mp, perr) ==
    IF ~StageRealized(st, "Position")
    THEN [ok |-> FALSE, err |-> "PreconditionError", out |-> perr]
    ELSE IF mp # ci.mp
    THEN [ok |-> FALSE, err |-> "ConfigurationError", out |-> perr]
    ELSE LET V(j) == QErr(ci.holo0 + j) IN
         [ok |-> TRUE, err |-> "", out |-> WriteOut(perr, mp, V)]

\* Mutant: only the holonomic count is compared.
getVelocityErrors_HolonomicOnly(st, ci, mpv, pverr) ==
    IF ~StageRealized(st, "Velocity")
    THEN [ok |-> FALSE, err |-> "PreconditionError", out |-> pverr]
    ELSE IF mpv # ci.mp
    THEN [ok |-> FALSE, err |-> "ConfigurationError", out |-> pverr]
    ELSE LET V(j) == UErr(getConstraintEquationSlots(ci, j)) IN
         [ok |-> TRUE, err |-> "", out |-> WriteOut(pverr, mpv, V)]

getVelocityErrors(st, ci, mpv, pverr) ==
    IF ~StageRealized(st, "Velocity")
    THEN [ok |-> FALSE, err |-> "PreconditionError", out |-> pverr]
    ELSE IF mpv # ci.mp + ci.mv
    THEN [ok |-> FALSE, err |-> "ConfigurationError", out |-> pverr]
    ELSE LET V(j) == UErr(getConstraintEquationSlots(ci, j)) IN
         [ok |-> TRUE, err |-> "", out |-> WriteOut(pverr, mpv, V)]

getAccelerationErrors(st, ci, mpva, pvaerr) ==
    IF ~StageRealized(st, "Acceleration")
    THEN [ok |-> FALSE, err |-> "PreconditionError", out |-> pvaerr]
    ELSE IF mpva # ci.mp + ci.mv + ci.ma
    THEN [ok |-> FALSE, err |-> "ConfigurationError", out |-> pvaerr]
    ELSE LET V(j) == UDotErr(getConstraintEquationSlots(ci, j)) IN
         [ok |-> TRUE, err |-> "", out |-> WriteOut(pvaerr, mpva, V)]

getMultipliers(st, ci, mpva, lambda) ==
    IF ~StageRealized(st, "Acceleration")
    THEN [ok |-> FALSE, err |-> "PreconditionError", out |-> lambda]
    ELSE IF mpva # ci.mp + ci.mv + ci.ma
    THEN [ok |-> FALSE, err |-> "ConfigurationError", out |-> lambda]
    ELSE LET V(j) == Multipliers(getConstraintEquationSlots(ci, j)) IN
         [ok |-> TRUE, err |-> "", out |-> WriteOut(lambda, mpva, V)]

\* What the caller's array holds before a call: one entry more than any
\* count asked for, none of them a value of the mechanism's arrays.
Unwritten == 0 - 1
CallerArray == [i \in 1..(3 * MaxEq + 1) |-> Unwritten]

GetErrors(op, r) ==
    /\ outbuf' = r.out
    /\ ret' = Ret(op, r.ok, r.err, -1, r.args, stage)
    /\ bodyForcesInA' = <<>> /\ mobilityForces' = <<>> /\ generalizedForces' = <<>>
    /\ UNCHANGED <<sbCache, kindVars, stage, indexVars, countVars, topoCache, cInfo>>

GetPositionErrors ==
    \E n \in 0..(3 * MaxEq) :
        GetErrors("getPositionErrors",
                  getPositionErrors(stage, cInfo, n, CallerArray) @@ [args |-> <<n>>])

GetVelocityErrors ==
    \E n \in 0..(3 * MaxEq) :
        GetErrors("getVelocityErrors",
                  getVelocityErrors(stage, cInfo, n, CallerArray) @@ [args |-> <<n>>])

GetAccelerationErrors ==
    \E n \in 0..(3 * MaxEq) :
        GetErrors("getAccelerationErrors",
                  getAccelerationErrors(stage, cInfo, n, CallerArray) @@ [args |-> <<n>>])

GetMultipliers ==
    \E n \in 0..(3 * MaxEq) :
        GetErrors("getMultipliers",
                  getMultipliers(stage, cInfo, n, CallerArray) @@ [args |-> <<n>>])

GetConstraintEquationSlots ==
    \E r \in {getConstraintEquationSlotsOf(stage, cInfo)} :
        /\ ret' = Ret("getConstraintEquationSlots", r.ok, r.err, r.val, <<>>, stage)
        /\ UNCHANGED <<sbCache, kindVars, stage, indexVars, countVars, topoCache, cInfo>>
        /\ NoBuffers

(***************************************************************************)
(* SpecErrors: a Custom constraint constructed with equation counts of its *)
(* own, behind other constraints' equations, whose errors and multipliers  *)
(* are read at every stage.                                                *)
(***************************************************************************)
InitErrors ==
    /\ \E mp, mv, ma \in 0..MaxEq :
        ConstraintImpl("Custom", <<mp, mv, ma>>, FirstBodies(2), <<>>, [none |-> 0])
    /\ AtRest

NextErrors ==
    \/ \E i \in 1..Len(StageOrder) : Realize(i, 0..MaxOtherEq)
    \/ InvalidateTopologyCache
    \/ GetPositionErrors
    \/ GetVelocityErrors
    \/ GetAccelerationErrors
    \/ GetMultipliers
    \/ GetConstraintEquationSlots

SpecErrors == InitErrors /\ [][NextErrors]_vars

(***************************************************************************)
(* Constraint forces from multipliers.  A call in progress is a record     *)
(* [ok, err, body, mob, applied]: whether it is still running, the two     *)
(* force buffers as written so far, and the categories whose apply routine *)
(* was invoked.                                                            *)
(***************************************************************************)
\* X_AB of a mobilized body in the state's position cache, by global index.
BodyPose(b) == sbCache.X[b]

Stop(r, e) == [r EXCEPT !.ok = FALSE, !.err = e]

\* Step(x) of the call in progress r, with r evaluated once.
With(r, Step(_)) == CHOOSE y \in {Step(x) : x \in {r}} : TRUE

\* getPositionCache(s): available once Position is realized.
getPositionCache(rIn) ==
    With(rIn, LAMBDA r :
        IF r.ok /\ ~StageRealized(stage, "Position")
        THEN Stop(r, "PreconditionError") ELSE r)

getBodyTransform(B) == BodyPose(myConstrainedBodies[B + 1])
getBodyRotation(B) == getBodyTransform(B).R
calcStationLocation(B, p_B) == XformPoint(getBodyTransform(B), p_B)

\* Indexing the body-force buffer or the constrained bodies with an index
\* outside 0..k-1 is a precondition violation.
ConstrainedBodyIndexInRange(B) == 0 <= B /\ B < Len(myConstrainedBodies)

\* Mutant: bodyForcesInA[B] += SpatialVec(Vec3(0), forceInA);
addInStationForce_NoMoment(B, p_B, forceInA, rIn) ==
    With(rIn, LAMBDA r :
        LET n == getNumConstrainedBodies(stage, myConstrainedBodies) IN
        IF ~r.ok THEN r
        ELSE IF ~n.ok THEN Stop(r, n.err)
        ELSE IF Len(r.body) # n.val THEN Stop(r, "assert")
        ELSE IF ~StageRealized(stage, "Position") THEN Stop(r, "PreconditionError")
        ELSE IF ~ConstrainedBodyIndexInRange(B) THEN Stop(r, "PreconditionError")
        ELSE [r EXCEPT !.body[B + 1] = SAdd(@, <<Zero3, forceInA>>)])

\* assert(bodyForcesInA.size() == getNumConstrainedBodies());
\* bodyForcesInA[B] += SpatialVec((R_AB*p_B) % forceInA, forceInA);
addInStationForce(B, p_B, forceInA, rIn) ==
    With(rIn, LAMBDA r :
        LET n == getNumConstrainedBodies(stage, myConstrainedBodies) IN
        IF ~r.ok THEN r
        ELSE IF ~n.ok THEN Stop(r, n.err)
        ELSE IF Len(r.body) # n.val THEN Stop(r, "assert")
        ELSE IF ~StageRealized(stage, "Position") THEN Stop(r, "PreconditionError")
        ELSE IF ~ConstrainedBodyIndexInRange(B) THEN Stop(r, "PreconditionError")
        ELSE [r EXCEPT !.body[B + 1] =
                 SAdd(@, <<Cross(MatVec(getBodyRotation(B), p_B), forceInA), forceInA>>)])

\* Mutant: bodyForcesInA[B][0] = torqueInA;
addInBodyTorque_Overwrite(B, torqueInA, rIn) ==
    With(rIn, LAMBDA r :
        LET n == getNumConstrainedBodies(stage, myConstrainedBodies) IN
        IF ~r.ok THEN r
        ELSE IF ~n.ok THEN Stop(r, n.err)
        ELSE IF Len(r.body) # n.val THEN Stop(r, "assert")
        ELSE IF ~ConstrainedBodyIndexInRange(B) THEN Stop(r, "PreconditionError")
        ELSE [r EXCEPT !.body[B + 1] = <<torqueInA, @[2]>>])

\* assert(bodyForcesInA.size() == getNumConstrainedBodies());
\* bodyForcesInA[B][0] += torqueInA;
addInBodyTorque(B, torqueInA, rIn) ==
    With(rIn, LAMBDA r :
        LET n == getNumConstrainedBodies(stage, myConstrainedBodies) IN
        IF ~r.ok THEN r
        ELSE IF ~n.ok THEN Stop(r, n.err)
        ELSE IF Len(r.body) # n.val THEN Stop(r, "assert")
        ELSE IF ~ConstrainedBodyIndexInRange(B) THEN Stop(r, "PreconditionError")
        ELSE [r EXCEPT !.body[B + 1] = SAdd(@, <<torqueInA, Zero3>>)])

\* Mobilities of all constrained mobilizers, of one of them, and the slot of
\* one mobility among them; available once Model is realized.
getNumConstrainedU ==
    LET RECURSIVE Sum(_)
        Sum(i) == IF i = 0 THEN 0
                  ELSE Sum(i - 1) + MobilizerNumU(myConstrainedMobilizers[i])
    IN Sum(Len(myConstrainedMobilizers))

getNumConstrainedUOf(M) == MobilizerNumU(myConstrainedMobilizers[M + 1])

getConstrainedUIndex(M, which) ==
    LET RECURSIVE Sum(_)
        Sum(i) == IF i = 0 THEN 0
                  ELSE Sum(i - 1) + MobilizerNumU(myConstrainedMobilizers[i])
    IN Sum(M) + which

\* assert(mobilityForces.size() == getNumConstrainedU(s));
\* assert(0 <= which && which < getNumConstrainedU(s, M));
\* mobilityForces[getConstrainedUIndex(s,M,which)] += f;
addInOneMobilityForce(M, which, f, rIn) ==
    With(rIn, LAMBDA r :
        IF ~r.ok THEN r
        ELSE IF ~StageRealized(stage, "Model") THEN Stop(r, "PreconditionError")
        ELSE IF Len(r.mob) # getNumConstrainedU THEN Stop(r, "assert")
        ELSE IF ~(0 <= which /\ which < getNumConstrainedUOf(M)) THEN Stop(r, "assert")
        ELSE [r EXCEPT !.mob[getConstrainedUIndex(M, which) + 1] = @ + f])

\* assert(n == expected && multipliers) at the head of an apply routine.
AssertCount(n, expected, rIn) ==
    With(rIn, LAMBDA r : IF r.ok /\ n # expected THEN Stop(r, "assert") ELSE r)

\* The three-vector at multipliers[off .. off+2].
Vec3At(lambda, off) == <<lambda[off + 1], lambda[off + 2], lambda[off + 3]>>

\* Mutant: the force f2 is applied to both stations with the same sign.
RodImpl_applyPositionConstraintForcesVirtual_SameSign(mp, lambda, r) ==
    LET B1 == roles.b[1]
        B2 == roles.b[2]
        p1 == calcStationLocation(B1, geom.defaultPoint1)
        p2 == calcStationLocation(B2, geom.defaultPoint2)
        f2 == VScale(lambda[1], VSub(p2, p1))
    IN  addInStationForce(B1, geom.defaultPoint1, f2,
            addInStationForce(B2, geom.defaultPoint2, f2,
                getPositionCache(AssertCount(mp, 1, r))))

RodImpl_applyPositionConstraintForcesVirtual(mp, lambda, r) ==
    LET B1 == roles.b[1]
        B2 == roles.b[2]
        p1 == calcStationLocation(B1, geom.defaultPoint1)
        p2 == calcStationLocation(B2, geom.defaultPoint2)
        f2 == VScale(lambda[1], VSub(p2, p1))
    IN  addInStationForce(B1, geom.defaultPoint1, VNeg(f2),
            addInStationForce(B2, geom.defaultPoint2, f2,
                getPositionCache(AssertCount(mp, 1, r))))

PointInPlaneImpl_applyPositionConstraintForcesVirtualOn(g, mp, lambda, r) ==
    LET planeBody == roles.b[1]
        followerBody == roles.b[2]
        X_AB == getBodyTransform(planeBody)
        p_FS == g.defaultFollowerPoint
        p_AS == calcStationLocation(followerBody, p_FS)
        p_BC == XformInvPoint(X_AB, p_AS)
        force_A == MatVec(X_AB.R, VScale(lambda[1], g.defaultPlaneNormal))
    IN  addInStationForce(planeBody, p_BC, VNeg(force_A),
            addInStationForce(followerBody, p_FS, force_A,
                getPositionCache(AssertCount(mp, 1, r))))

\* The routine on this constraint's own members.
PointInPlaneImpl_applyPositionConstraintForcesVirtual(mp, lambda, r) ==
    PointInPlaneImpl_applyPositionConstraintForcesVirtualOn(geom, mp, lambda, r)

\* Mutant: the force is applied as expressed in the line body's frame,
\* force_A = force_B.
PointOnLineImpl_applyPositionConstraintForcesVirtual_NotReexpressed(mp, lambda, r) ==
    LET lineBody == roles.b[1]
        followerBody == roles.b[2]
        X_AB == getBodyTransform(lineBody)
        p_FS == geom.defaultFollowerPoint
        p_AS == calcStationLocation(followerBody, p_FS)
        p_BC == XformInvPoint(X_AB, p_AS)
        force_B == VAdd(VScale(lambda[1], topoCache.x), VScale(lambda[2], topoCache.y))
        force_A == force_B
    IN  addInStationForce(lineBody, p_BC, VNeg(force_A),
            addInStationForce(followerBody, p_FS, force_A,
                getPositionCache(AssertCount(mp, 2, r))))

PointOnLineImpl_applyPositionConstraintForcesVirtual(mp, lambda, r) ==
    LET lineBody == roles.b[1]
        followerBody == roles.b[2]
        X_AB == getBodyTransform(lineBody)
        p_FS == geom.defaultFollowerPoint
        p_AS == calcStationLocation(followerBody, p_FS)
        p_BC == XformInvPoint(X_AB, p_AS)
        force_B == VAdd(VScale(lambda[1], topoCache.x), VScale(lambda[2], topoCache.y))
        force_A == MatVec(X_AB.R, force_B)
    IN  addInStationForce(lineBody, p_BC, VNeg(force_A),
            addInStationForce(followerBody, p_FS, force_A,
                getPositionCache(AssertCount(mp, 2, r))))

\* Mutant: const Vec3 torque_F_A = lambda * (b_A % f_A);
ConstantAngleImpl_applyPositionConstraintForcesVirtual_Swapped(mp, lambda, r) ==
    LET B == roles.b[1]
        F == roles.b[2]
        b_A == MatVec(getBodyRotation(B), geom.defaultAxisB)
        f_A == MatVec(getBodyRotation(F), geom.defaultAxisF)
        torque_F_A == VScale(lambda[1], Cross(b_A, f_A))
    IN  addInBodyTorque(B, VNeg(torque_F_A),
            addInBodyTorque(F, torque_F_A,
                getPositionCache(AssertCount(mp, 1, r))))

ConstantAngleImpl_applyPositionConstraintForcesVirtual(mp, lambda, r) ==
    LET B == roles.b[1]
        F == roles.b[2]
        b_A == MatVec(getBodyRotation(B), geom.defaultAxisB)
        f_A == MatVec(getBodyRotation(F), geom.defaultAxisF)
        torque_F_A == VScale(lambda[1], Cross(f_A, b_A))
    IN  addInBodyTorque(B, VNeg(torque_F_A),
            addInBodyTorque(F, torque_F_A,
                getPositionCache(AssertCount(mp, 1, r))))

\* Mutant: the reaction force is applied at body 1's own station.
BallImpl_applyPositionConstraintForcesVirtual_AtPoint1(mp, lambda, r) ==
    LET B1 == roles.b[1]
        B2 == roles.b[2]
        force_A == Vec3At(lambda, 0)
    IN  addInStationForce(B1, geom.defaultPoint1, VNeg(force_A),
            addInStationForce(B2, geom.defaultPoint2, force_A,
                getPositionCache(AssertCount(mp, 3, r))))

\* Mutant: the reaction force is applied at body 1's nominal point P.
BallImpl_applyPositionConstraintForcesVirtualOn_AtNominalPoint(g, mp, lambda, r) ==
    LET B1 == roles.b[1]
        B2 == roles.b[2]
        force_A == Vec3At(lambda, 0)
    IN  addInStationForce(B1, g.defaultPoint1, VNeg(force_A),
            addInStationForce(B2, g.defaultPoint2, force_A,
                getPositionCache(AssertCount(mp, 3, r))))

BallImpl_applyPositionConstraintForcesVirtualOn(g, mp, lambda, r) ==
    LET B1 == roles.b[1]
        B2 == roles.b[2]
        X_AB == getBodyTransform(B1)
        p_FS == g.defaultPoint2
        p_AS == calcStationLocation(B2, p_FS)
        p_BC == XformInvPoint(X_AB, p_AS)
        force_A == Vec3At(lambda, 0)
    IN  addInStationForce(B1, p_BC, VNeg(force_A),
            addInStationForce(B2, p_FS, force_A,
                getPositionCache(AssertCount(mp, 3, r))))

\* The routine on this constraint's own members.
BallImpl_applyPositionConstraintForcesVirtual(mp, lambda, r) ==
    BallImpl_applyPositionConstraintForcesVirtualOn(geom, mp, lambda, r)

\* lambda_x * (RFx % RBy) + lambda_y * (RFy % RBz) + lambda_z * (RFz % RBx)
OrientationTorque(l, RF, RB) ==
    VAdd(VAdd(VScale(l[1], Cross(Col(RF, 1), Col(RB, 2))),
              VScale(l[2], Cross(Col(RF, 2), Col(RB, 3)))),
         VScale(l[3], Cross(Col(RF, 3), Col(RB, 1))))

ConstantOrientationImpl_applyPositionConstraintForcesVirtualOn(g, mp, lambda, r) ==
    LET B == roles.b[1]
        F == roles.b[2]
        RB == MatMul(getBodyRotation(B), g.defaultRB)
        RF == MatMul(getBodyRotation(F), g.defaultRF)
        torque_F_A == OrientationTorque(Vec3At(lambda, 0), RF, RB)
    IN  addInBodyTorque(B, VNeg(torque_F_A),
            addInBodyTorque(F, torque_F_A,
                getPositionCache(AssertCount(mp, 3, r))))

\* The routine on this constraint's own members.
ConstantOrientationImpl_applyPositionConstraintForcesVirtual(mp, lambda, r) ==
    ConstantOrientationImpl_applyPositionConstraintForcesVirtualOn(geom, mp, lambda, r)

WeldImpl_applyPositionConstraintForcesVirtual(mp, lambda, r) ==
    LET B == roles.b[1]
        F == roles.b[2]
        torques == Vec3At(lambda, 0)
        force_A == Vec3At(lambda, 3)
        RB == MatMul(getBodyRotation(B), geom.defaultFrameB.R)
        RF == MatMul(getBodyRotation(F), geom.defaultFrameF.R)
        torque_F_A == OrientationTorque(torques, RF, RB)
        X_AB == getBodyTransform(B)
        p_FF2 == geom.defaultFrameF.T
        p_AF2 == calcStationLocation(F, p_FF2)
        p_BC == XformInvPoint(X_AB, p_AF2)
    IN  addInStationForce(B, p_BC, VNeg(force_A),
            addInStationForce(F, p_FF2, force_A,
                addInBodyTorque(B, VNeg(torque_F_A),
                    addInBodyTorque(F, torque_F_A,
                        getPositionCache(AssertCount(mp, 6, r))))))

\* Mutant: the reaction -f is applied to the case body at the contact point.
NoSlip1DImpl_applyVelocityConstraintForcesVirtual_OnCase(mv, lambda, r) ==
    LET caseBody == roles.b[1]
        movingBody1 == roles.b[3]
        X_AC == getBodyTransform(caseBody)
        p_AP == XformPoint(X_AC, geom.defaultContactPoint)
        p_P1 == XformInvPoint(getBodyTransform(movingBody1), p_AP)
        force_A == MatVec(X_AC.R, VScale(lambda[1], geom.defaultNoSlipDirection))
    IN  addInStationForce(caseBody, geom.defaultContactPoint, VNeg(force_A),
            addInStationForce(movingBody1, p_P1, force_A,
                getPositionCache(AssertCount(mv, 1, r))))

NoSlip1DImpl_applyVelocityConstraintForcesVirtual(mv, lambda, r) ==
    LET caseBody == roles.b[1]
        movingBody0 == roles.b[2]
        movingBody1 == roles.b[3]
        X_AC == getBodyTransform(caseBody)
        p_AP == XformPoint(X_AC, geom.defaultContactPoint)
        p_P0 == XformInvPoint(getBodyTransform(movingBody0), p_AP)
        p_P1 == XformInvPoint(getBodyTransform(movingBody1), p_AP)
        force_A == MatVec(X_AC.R, VScale(lambda[1], geom.defaultNoSlipDirection))
    IN  addInStationForce(movingBody0, p_P0, VNeg(force_A),
            addInStationForce(movingBody1, p_P1, force_A,
                getPositionCache(AssertCount(mv, 1, r))))

ConstantSpeedImpl_applyVelocityConstraintForcesVirtual(mv, lambda, r) ==
    addInOneMobilityForce(roles.m[1], geom.whichMobility, lambda[1],
                          AssertCount(mv, 1, r))

\* The apply routine a Custom constraint's implementation supplies for a
\* category; this one adds no force.
CustomApplyConstraintForces(n, lambda, r) == r

\* A category's apply routine of the base class, for a kind that defines
\* none: "must be defined if there are any ... constraints defined".
BaseApplyConstraintForces(rIn) ==
    With(rIn, LAMBDA r : IF r.ok THEN Stop(r, "UnimplementedError") ELSE r)

\* applyPositionConstraintForces: the kind's applyPositionConstraintForcesVirtual.
applyPositionConstraintForces(mp, lambda, r) ==
    CASE kind = "Rod" -> RodImpl_applyPositionConstraintForcesVirtual(mp, lambda, r)
      [] kind = "PointInPlane" ->
            PointInPlaneImpl_applyPositionConstraintForcesVirtual(mp, lambda, r)
      [] kind = "PointOnLine" ->
            PointOnLineImpl_applyPositionConstraintForcesVirtual(mp, lambda, r)
      [] kind = "ConstantAngle" ->
            ConstantAngleImpl_applyPositionConstraintForcesVirtual(mp, lambda, r)
      [] kind = "Ball" -> BallImpl_applyPositionConstraintForcesVirtual(mp, lambda, r)
      [] kind = "ConstantOrientation" ->
            ConstantOrientationImpl_applyPositionConstraintForcesVirtual(mp, lambda, r)
      [] kind = "Weld" -> WeldImpl_applyPositionConstraintForcesVirtual(mp, lambda, r)
      [] kind = "Custom" -> CustomApplyConstraintForces(mp, lambda, r)
      [] OTHER -> BaseApplyConstraintForces(r)

applyVelocityConstraintForces(mv, lambda, r) ==
    CASE kind = "NoSlip1D" -> NoSlip1DImpl_applyVelocityConstraintForcesVirtual(mv, lambda, r)
      [] kind = "ConstantSpeed" ->
            ConstantSpeedImpl_applyVelocityConstraintForcesVirtual(mv, lambda, r)
      [] kind = "Custom" -> CustomApplyConstraintForces(mv, lambda, r)
      [] OTHER -> BaseApplyConstraintForces(r)

applyAccelerationConstraintForces(ma, lambda, r) ==
    CASE kind = "Custom" -> CustomApplyConstraintForces(ma, lambda, r)
      [] OTHER -> BaseApplyConstraintForces(r)

\* Mutant: a passed count is never compared with the actual one.
CountsAgree_Unchecked(passed, actual) == TRUE

\* assert(mp == actual_mp); and the same for mv and ma.
CountsAgree(passed, actual) == passed = actual

\* One category of calcConstraintForcesFromMultipliers:
\*    if (n) { assert(n == actual_n); applyXConstraintForces(s, n, &lambda[off], ...); }
ApplyCategory(cat, n, actual, lambda, off, rIn) ==
    With(rIn, LAMBDA r :
        IF ~r.ok \/ n = 0 THEN r
        ELSE IF ~CountsAgree(n, actual) THEN Stop(r, "ConfigurationError")
        ELSE LET multipliers == SubSeq(lambda, off + 1, Len(lambda))
                 q == [r EXCEPT !.applied = @ \cup {cat}]
             IN  CASE cat = "p" -> applyPositionConstraintForces(n, multipliers, q)
                   [] cat = "v" -> applyVelocityConstraintForces(n, multipliers, q)
                   [] cat = "a" -> applyAccelerationConstraintForces(n, multipliers, q))

\* The caller passes its two buffers; the call returns them as it leaves them.
calcConstraintForcesFromMultipliers(mp, mv, ma, lambda, bodyIn, mobIn) ==
    LET actual == getNumConstraintEquations(stage, cInfo)
        nb == getNumConstrainedBodies(stage, myConstrainedBodies)
        r0 == [ok |-> TRUE, err |-> "", body |-> bodyIn, mob |-> mobIn, applied |-> {}]
    IN  IF ~actual.ok THEN Stop(r0, actual.err)
        ELSE IF ~nb.ok THEN Stop(r0, nb.err)
        ELSE LET
            \* bodyForcesInA.resize(getNumConstrainedBodies()); bodyForcesInA = 0;
            \* the same two statements for mobilityForces are commented out.
            r1 == [r0 EXCEPT !.body = [i \in 1..nb.val |-> ZeroSpatial]]
            r2 == ApplyCategory("p", mp, actual.mp, lambda, 0, r1)
            r3 == ApplyCategory("v", mv, actual.mv, lambda, mp, r2)
        IN  ApplyCategory("a", ma, actual.ma, lambda, mp + mv, r3)

\* Mutant: the conversion returns a vector of zeros.
convertConstraintForcesToGeneralizedForces_Zeros(bodyIn, mobIn, fIn) ==
    [ok |-> TRUE, err |-> "", f |-> [i \in 1..Len(mobIn) |-> 0]]

\* assert(!"convertConstraintForcesToGeneralizedForces: not implemented yet");
convertConstraintForcesToGeneralizedForces(bodyIn, mobIn, fIn) ==
    [ok |-> FALSE, err |-> "UnimplementedError", f |-> fIn]

\* Local empty buffers, the forces from the multipliers, then the conversion.
calcGTransposeLambda(mp, mv, ma, lambda, fIn) ==
    With(calcConstraintForcesFromMultipliers(mp, mv, ma, lambda, <<>>, <<>>), LAMBDA c :
        LET g == convertConstraintForcesToGeneralizedForces(c.body, c.mob, fIn) IN
        IF ~c.ok THEN [ok |-> FALSE, err |-> c.err, f |-> fIn, applied |-> c.applied]
        ELSE [ok |-> g.ok, err |-> g.err, f |-> g.f, applied |-> c.applied])

(***************************************************************************)
(* What callers pass.                                                      *)
(***************************************************************************)
\* Multiplier arrays are this long: the six equations of a Weld and one
\* more of each other category.
LambdaLen == 8
Lambdas == {[i \in 1..LambdaLen |-> i], [i \in 1..LambdaLen |-> 2 - ((i * i) % 5)]}

\* The counts a caller declares: none, the constraint's default counts, those
\* with one category left out, and those with one category off by one.
PassedCounts(d) ==
    {<<0, 0, 0>>, d} \cup {[d EXCEPT ![c] = 0] : c \in 1..3}
                     \cup {[d EXCEPT ![c] = @ + 1] : c \in 1..3}

Used == <<<<9, 9, 9>>, <<9, 9, 9>>>>

\* The caller's buffers before a call: empty, of the right sizes and still
\* holding what an earlier use left in them, or zeroed and one entry longer.
CallerBuffers ==
    {[body |-> <<>>, mob |-> <<>>],
     [body |-> [i \in 1..Len(myConstrainedBodies) |-> Used],
      mob |-> [i \in 1..getNumConstrainedU |-> 7]],
     [body |-> [i \in 1..(Len(myConstrainedBodies) + 1) |-> ZeroSpatial],
      mob |-> [i \in 1..(getNumConstrainedU + 1) |-> 0]]}

CallerF == {<<>>, <<7, 7>>}

\* A force or torque in A and the station it is applied at.
ForceInputs == {[p_B |-> <<1, 0, 0>>, inA |-> <<0, 0, 3>>],
                [p_B |-> <<0, 2, 1>>, inA |-> <<1, -1, 0>>]}

CalcConstraintForcesFromMultipliers ==
    \E n \in PassedCounts(<<defaultMp, defaultMv, defaultMa>>), lambda \in Lambdas,
       cb \in CallerBuffers :
        LET mp == n[1]
            mv == n[2]
            ma == n[3]
        IN
        \E r \in {calcConstraintForcesFromMultipliers(mp, mv, ma, lambda, cb.body, cb.mob)} :
        /\ bodyForcesInA' = r.body
        /\ mobilityForces' = r.mob
        /\ ret' = [Ret("calcConstraintForcesFromMultipliers", r.ok, r.err, -1,
                       <<mp, mv, ma, lambda, cb.body, cb.mob>>, stage)
                   EXCEPT !.applied = r.applied]
        /\ generalizedForces' = <<>> /\ outbuf' = <<>>
        /\ UNCHANGED <<sbCache, kindVars, stage, indexVars, countVars, topoCache, cInfo>>

ConvertConstraintForcesToGeneralizedForces ==
    \E cb \in CallerBuffers, fIn \in CallerF :
        LET r == convertConstraintForcesToGeneralizedForces(cb.body, cb.mob, fIn) IN
        /\ bodyForcesInA' = cb.body
        /\ mobilityForces' = cb.mob
        /\ generalizedForces' = r.f
        /\ ret' = Ret("convertConstraintForcesToGeneralizedForces", r.ok, r.err, -1,
                      <<cb.body, cb.mob, fIn>>, stage)
        /\ outbuf' = <<>>
        /\ UNCHANGED <<sbCache, kindVars, stage, indexVars, countVars, topoCache, cInfo>>

CalcGTransposeLambda ==
    \E n \in PassedCounts(<<defaultMp, defaultMv, defaultMa>>), lambda \in Lambdas,
       fIn \in CallerF :
        LET mp == n[1]
            mv == n[2]
            ma == n[3]
        IN
        \E r \in {calcGTransposeLambda(mp, mv, ma, lambda, fIn)} :
        /\ generalizedForces' = r.f
        /\ ret' = [Ret("calcGTransposeLambda", r.ok, r.err, -1,
                       <<mp, mv, ma, lambda, fIn>>, stage)
                   EXCEPT !.applied = r.applied]
        /\ bodyForcesInA' = <<>> /\ mobilityForces' = <<>> /\ outbuf' = <<>>
        /\ UNCHANGED <<sbCache, kindVars, stage, indexVars, countVars, topoCache, cInfo>>

AddInStationForce ==
    \E B \in (0 - 1)..Len(myConstrainedBodies), in \in ForceInputs,
       cb \in CallerBuffers :
        LET p_B == in.p_B
            forceInA == in.inA
        IN
        \E r \in {addInStationForce(B, p_B, forceInA,
                     [ok |-> TRUE, err |-> "", body |-> cb.body, mob |-> cb.mob,
                      applied |-> {}])} :
        /\ bodyForcesInA' = r.body
        /\ mobilityForces' = cb.mob
        /\ ret' = Ret("addInStationForce", r.ok, r.err, -1,
                      <<B, p_B, forceInA, cb.body>>, stage)
        /\ generalizedForces' = <<>> /\ outbuf' = <<>>
        /\ UNCHANGED <<sbCache, kindVars, stage, indexVars, countVars, topoCache, cInfo>>

AddInBodyTorque ==
    \E B \in (0 - 1)..Len(myConstrainedBodies), in \in ForceInputs,
       cb \in CallerBuffers :
        LET torqueInA == in.inA IN
        \E r \in {addInBodyTorque(B, torqueInA,
                     [ok |-> TRUE, err |-> "", body |-> cb.body, mob |-> cb.mob,
                      applied |-> {}])} :
        /\ bodyForcesInA' = r.body
        /\ mobilityForces' = cb.mob
        /\ ret' = Ret("addInBodyTorque", r.ok, r.err, -1,
                      <<B, torqueInA, cb.body>>, stage)
        /\ generalizedForces' = <<>> /\ outbuf' = <<>>
        /\ UNCHANGED <<sbCache, kindVars, stage, indexVars, countVars, topoCache, cInfo>>

(***************************************************************************)
(* SpecForces: a constructed constraint of a built-in kind, or a Custom    *)
(* one with equation counts of its own, whose forces are asked for at      *)
(* every stage.                                                            *)
(***************************************************************************)
\* The handle adds the kind's bodies in ascending or descending global
\* order, and its mobilizers from body 0 or from body 1 on.
HandleBodies(n) == {[i \in 1..n |-> i - 1], [i \in 1..n |-> n - i]}
HandleMobilizers(n) == {[i \in 1..n |-> i - 1], [i \in 1..n |-> i]}

InitForces ==
    /\ \/ \E k \in BuiltInKinds :
             \E bs \in HandleBodies(KindNumBodies(k)),
                ms \in HandleMobilizers(KindNumMobilizers(k)), g \in KindGeoms(k) :
                   Constructed(k, bs, ms, g)
       \/ \E mp, mv, ma \in 0..MaxEq :
               ConstraintImpl("Custom", <<mp, mv, ma>>, FirstBodies(2), <<>>, [none |-> 0])
    /\ AtRest

NextForces ==
    \/ \E i \in 1..Len(StageOrder) : Realize(i, {0})
    \/ InvalidateTopologyCache
    \/ GetNumConstrainedBodies
    \/ GetNumConstrainedMobilizers
    \/ AddInStationForce
    \/ AddInBodyTorque
    \/ CalcConstraintForcesFromMultipliers
    \/ ConvertConstraintForcesToGeneralizedForces
    \/ CalcGTransposeLambda

SpecForces == InitForces /\ [][NextForces]_vars

(***************************************************************************)
(* Constraint errors of each kind.  c is the State's caches the routine    *)
(* reads; mp or mv is the count the caller passes.  A routine returns      *)
(* [ok, err, out]: out is the error array it wrote, in halves (1.5 is 3).  *)
(***************************************************************************)
\* An integer-valued Real in halves, and the halves of a vector's elements.
Halves(x) == 2 * x
HalvesVec(v) == <<Halves(v[1]), Halves(v[2]), Halves(v[3])>>
Square(x) == x * x

\* X_AB, V_AB and A_AB of constrained body B in the caches.
getBodyTransformIn(c, B) == c.X[myConstrainedBodies[B + 1]]
getBodyVelocityIn(c, B) == c.V[myConstrainedBodies[B + 1]]
getBodyAccelerationIn(c, B) == c.A[myConstrainedBodies[B + 1]]

getBodyRotationIn(c, B) == getBodyTransformIn(c, B).R
getBodyAngularVelocityIn(c, B) == getBodyVelocityIn(c, B)[1]
getBodyAngularAccelerationIn(c, B) == getBodyAccelerationIn(c, B)[1]

\* getBodyTransform(s,pc,B) * p_B
calcStationLocationIn(c, B, p_B) == XformPoint(getBodyTransformIn(c, B), p_B)

\* V_AB[1] + (V_AB[0] % p_A)
calcStationVelocityIn(c, B, p_B) ==
    LET p_A == MatVec(getBodyRotationIn(c, B), p_B)
        V_AB == getBodyVelocityIn(c, B)
    IN  VAdd(V_AB[2], Cross(V_AB[1], p_A))

\* Mutant: A_AB[1] + (A_AB[0] % p_A) + (w_AB % w_AB) % p_A
calcStationAccelerationIn_LeftGrouped(c, B, p_B) ==
    LET p_A == MatVec(getBodyRotationIn(c, B), p_B)
        w_AB == getBodyAngularVelocityIn(c, B)
        A_AB == getBodyAccelerationIn(c, B)
    IN  VAdd(VAdd(A_AB[2], Cross(A_AB[1], p_A)), Cross(Cross(w_AB, w_AB), p_A))

\* A_AB[1] + (A_AB[0] % p_A) + w_AB % (w_AB % p_A)
calcStationAccelerationIn(c, B, p_B) ==
    LET p_A == MatVec(getBodyRotationIn(c, B), p_B)
        w_AB == getBodyAngularVelocityIn(c, B)
        A_AB == getBodyAccelerationIn(c, B)
    IN  VAdd(VAdd(A_AB[2], Cross(A_AB[1], p_A)), Cross(w_AB, Cross(w_AB, p_A)))

\* The speed and acceleration of one mobility of a constrained mobilizer.
getOneU(c, M, which) == c.u[myConstrainedMobilizers[M + 1]][which + 1]
getOneUDot(c, M, which) == c.udot[myConstrainedMobilizers[M + 1]][which + 1]

\* Mutant: the assertion at the head of a routine is not made.
ErrOut_Unchecked(n, expected, vals) == [ok |-> TRUE, err |-> "", out |-> vals]

\* assert(n == expected && err) at the head of a routine, then its result.
ErrOut(n, expected, vals) ==
    IF n # expected THEN [ok |-> FALSE, err |-> "assert", out |-> <<>>]
    ELSE [ok |-> TRUE, err |-> "", out |-> vals]

\* Mutant: *perr = dot(p, p) - square(defaultRodLength);
RodImpl_realizePositionErrorsVirtual_NotHalved(c, mp) ==
    LET p1 == calcStationLocationIn(c, roles.b[1], geom.defaultPoint1)
        p2 == calcStationLocationIn(c, roles.b[2], geom.defaultPoint2)
        p == VSub(p2, p1)
    IN  ErrOut(mp, 1, <<Halves(Dot(p, p) - Square(geom.defaultRodLength))>>)

\* perr = (p^2 - d^2)/2
RodImpl_realizePositionErrorsVirtual(c, mp) ==
    LET B1 == roles.b[1]
        B2 == roles.b[2]
        p1 == calcStationLocationIn(c, B1, geom.defaultPoint1)
        p2 == calcStationLocationIn(c, B2, geom.defaultPoint2)
        p == VSub(p2, p1)
    IN  ErrOut(mp, 1, <<Halves(Dot(p, p) - Square(geom.defaultRodLength)) \div 2>>)

\* pverr = v*p
RodImpl_realizePositionDotErrorsVirtual(c, mp) ==
    LET B1 == roles.b[1]
        B2 == roles.b[2]
        p1 == calcStationLocationIn(c, B1, geom.defaultPoint1)
        p2 == calcStationLocationIn(c, B2, geom.defaultPoint2)
        p == VSub(p2, p1)
        v1 == calcStationVelocityIn(c, B1, geom.defaultPoint1)
        v2 == calcStationVelocityIn(c, B2, geom.defaultPoint2)
        v == VSub(v2, v1)
    IN  ErrOut(mp, 1, <<Halves(Dot(v, p))>>)

\* paerr = a*p + v*v
RodImpl_realizePositionDotDotErrorsVirtual(c, mp) ==
    LET B1 == roles.b[1]
        B2 == roles.b[2]
        p1 == calcStationLocationIn(c, B1, geom.defaultPoint1)
        p2 == calcStationLocationIn(c, B2, geom.defaultPoint2)
        p == VSub(p2, p1)
        v1 == calcStationVelocityIn(c, B1, geom.defaultPoint1)
        v2 == calcStationVelocityIn(c, B2, geom.defaultPoint2)
        v == VSub(v2, v1)
        a1 == calcStationAccelerationIn(c, B1, geom.defaultPoint1)
        a2 == calcStationAccelerationIn(c, B2, geom.defaultPoint2)
        a == VSub(a2, a1)
    IN  ErrOut(mp, 1, <<Halves(Dot(a, p) + Dot(v, v))>>)

\* perr = ~p_BS*n - h
PointInPlaneImpl_realizePositionErrorsVirtualOn(g, c, mp) ==
    LET planeBody == roles.b[1]
        followerBody == roles.b[2]
        X_AB == getBodyTransformIn(c, planeBody)
        p_AS == calcStationLocationIn(c, followerBody, g.defaultFollowerPoint)
        p_BC == XformInvPoint(X_AB, p_AS)
    IN  ErrOut(mp, 1, <<Halves(Dot(p_BC, g.defaultPlaneNormal) - g.defaultPlaneHeight)>>)

\* The routine on this constraint's own members.
PointInPlaneImpl_realizePositionErrorsVirtual(c, mp) ==
    PointInPlaneImpl_realizePositionErrorsVirtualOn(geom, c, mp)

\* pverr = ~v_CS_A*n
PointInPlaneImpl_realizePositionDotErrorsVirtualOn(g, c, mp) ==
    LET planeBody == roles.b[1]
        followerBody == roles.b[2]
        X_AB == getBodyTransformIn(c, planeBody)
        p_AS == calcStationLocationIn(c, followerBody, g.defaultFollowerPoint)
        p_BC == XformInvPoint(X_AB, p_AS)
        n_A == MatVec(X_AB.R, g.defaultPlaneNormal)
        v_AS == calcStationVelocityIn(c, followerBody, g.defaultFollowerPoint)
        v_AC == calcStationVelocityIn(c, planeBody, p_BC)
    IN  ErrOut(mp, 1, <<Halves(Dot(VSub(v_AS, v_AC), n_A))>>)

\* The routine on this constraint's own members.
PointInPlaneImpl_realizePositionDotErrorsVirtual(c, mp) ==
    PointInPlaneImpl_realizePositionDotErrorsVirtualOn(geom, c, mp)

\* paerr = ~(a_CS_A - 2 w_AB X v_CS_A) * n
PointInPlaneImpl_realizePositionDotDotErrorsVirtualOn(g, c, mp) ==
    LET planeBody == roles.b[1]
        followerBody == roles.b[2]
        X_AB == getBodyTransformIn(c, planeBody)
        p_AS == calcStationLocationIn(c, followerBody, g.defaultFollowerPoint)
        p_BC == XformInvPoint(X_AB, p_AS)
        n_A == MatVec(X_AB.R, g.defaultPlaneNormal)
        w_AB == getBodyAngularVelocityIn(c, planeBody)
        v_AS == calcStationVelocityIn(c, followerBody, g.defaultFollowerPoint)
        v_AC == calcStationVelocityIn(c, planeBody, p_BC)
        a_AS == calcStationAccelerationIn(c, followerBody, g.defaultFollowerPoint)
        a_AC == calcStationAccelerationIn(c, planeBody, p_BC)
    IN  ErrOut(mp, 1,
            <<Halves(Dot(VSub(VSub(a_AS, a_AC),
                              Cross(VScale(2, w_AB), VSub(v_AS, v_AC))), n_A))>>)

\* The routine on this constraint's own members.
PointInPlaneImpl_realizePositionDotDotErrorsVirtual(c, mp) ==
    PointInPlaneImpl_realizePositionDotDotErrorsVirtualOn(geom, c, mp)

\* perr = ~(p_BS-p_BP) * x, ~(p_BS-p_BP) * y
PointOnLineImpl_realizePositionErrorsVirtual(c, mp) ==
    LET lineBody == roles.b[1]
        followerBody == roles.b[2]
        X_AB == getBodyTransformIn(c, lineBody)
        p_AS == calcStationLocationIn(c, followerBody, geom.defaultFollowerPoint)
        p_BC == XformInvPoint(X_AB, p_AS)
        p_PC == VSub(p_BC, geom.defaultPointOnLine)
    IN  ErrOut(mp, 2, <<Halves(Dot(p_PC, topoCache.x)), Halves(Dot(p_PC, topoCache.y))>>)

PointOnLineImpl_realizePositionDotErrorsVirtual(c, mp) ==
    LET lineBody == roles.b[1]
        followerBody == roles.b[2]
        X_AB == getBodyTransformIn(c, lineBody)
        p_AS == calcStationLocationIn(c, followerBody, geom.defaultFollowerPoint)
        p_BC == XformInvPoint(X_AB, p_AS)
        v_AS == calcStationVelocityIn(c, followerBody, geom.defaultFollowerPoint)
        v_AC == calcStationVelocityIn(c, lineBody, p_BC)
        v_CS_B == MatVec(MatT(X_AB.R), VSub(v_AS, v_AC))
    IN  ErrOut(mp, 2, <<Halves(Dot(v_CS_B, topoCache.x)), Halves(Dot(v_CS_B, topoCache.y))>>)

PointOnLineImpl_realizePositionDotDotErrorsVirtual(c, mp) ==
    LET lineBody == roles.b[1]
        followerBody == roles.b[2]
        X_AB == getBodyTransformIn(c, lineBody)
        p_AS == calcStationLocationIn(c, followerBody, geom.defaultFollowerPoint)
        p_BC == XformInvPoint(X_AB, p_AS)
        w_AB == getBodyAngularVelocityIn(c, lineBody)
        v_AS == calcStationVelocityIn(c, followerBody, geom.defaultFollowerPoint)
        v_AC == calcStationVelocityIn(c, lineBody, p_BC)
        a_AS == calcStationAccelerationIn(c, followerBody, geom.defaultFollowerPoint)
        a_AC == calcStationAccelerationIn(c, lineBody, p_BC)
        a_CS_B == MatVec(MatT(X_AB.R),
                         VSub(VSub(a_AS, a_AC), Cross(VScale(2, w_AB), VSub(v_AS, v_AC))))
    IN  ErrOut(mp, 2, <<Halves(Dot(a_CS_B, topoCache.x)), Halves(Dot(a_CS_B, topoCache.y))>>)

\* perr = ~b_A * f_A - cos(theta)
ConstantAngleImpl_realizePositionErrorsVirtual(c, mp) ==
    LET b_A == MatVec(getBodyRotationIn(c, roles.b[1]), geom.defaultAxisB)
        f_A == MatVec(getBodyRotationIn(c, roles.b[2]), geom.defaultAxisF)
    IN  ErrOut(mp, 1, <<Halves(Dot(b_A, f_A) - topoCache.cosineOfDefaultAngle)>>)

\* pverr = ~(w_AF-w_AB) * (f_A % b_A)
ConstantAngleImpl_realizePositionDotErrorsVirtual(c, mp) ==
    LET B == roles.b[1]
        F == roles.b[2]
        b_A == MatVec(getBodyRotationIn(c, B), geom.defaultAxisB)
        f_A == MatVec(getBodyRotationIn(c, F), geom.defaultAxisF)
        w_AB == getBodyAngularVelocityIn(c, B)
        w_AF == getBodyAngularVelocityIn(c, F)
    IN  ErrOut(mp, 1, <<Halves(Dot(VSub(w_AF, w_AB), Cross(f_A, b_A)))>>)

\* paerr = ~(b_AF-b_AB) * (f_A % b_A)
\*         + ~(w_AF-w_AB) * ((w_AF%f_A) % b_A - (w_AB%b_A) % f_A)
ConstantAngleImpl_realizePositionDotDotErrorsVirtual(c, mp) ==
    LET B == roles.b[1]
        F == roles.b[2]
        b_A == MatVec(getBodyRotationIn(c, B), geom.defaultAxisB)
        f_A == MatVec(getBodyRotationIn(c, F), geom.defaultAxisF)
        w_AB == getBodyAngularVelocityIn(c, B)
        w_AF == getBodyAngularVelocityIn(c, F)
        b_AB == getBodyAngularAccelerationIn(c, B)
        b_AF == getBodyAngularAccelerationIn(c, F)
    IN  ErrOut(mp, 1,
            <<Halves(Dot(VSub(b_AF, b_AB), Cross(f_A, b_A))
                     + Dot(VSub(w_AF, w_AB),
                           VSub(Cross(Cross(w_AF, f_A), b_A),
                                Cross(Cross(w_AB, b_A), f_A))))>>)

\* perr = p_AS - p_AP
BallImpl_realizePositionErrorsVirtualOn(g, c, mp) ==
    LET p_AP == calcStationLocationIn(c, roles.b[1], g.defaultPoint1)
        p_AS == calcStationLocationIn(c, roles.b[2], g.defaultPoint2)
    IN  ErrOut(mp, 3, HalvesVec(VSub(p_AS, p_AP)))

\* The routine on this constraint's own members.
BallImpl_realizePositionErrorsVirtual(c, mp) ==
    BallImpl_realizePositionErrorsVirtualOn(geom, c, mp)

\* pverr = v_AS - v_AC
BallImpl_realizePositionDotErrorsVirtualOn(g, c, mp) ==
    LET B1 == roles.b[1]
        B2 == roles.b[2]
        X_AB == getBodyTransformIn(c, B1)
        p_AS == calcStationLocationIn(c, B2, g.defaultPoint2)
        p_BC == XformInvPoint(X_AB, p_AS)
        v_AS == calcStationVelocityIn(c, B2, g.defaultPoint2)
        v_AC == calcStationVelocityIn(c, B1, p_BC)
    IN  ErrOut(mp, 3, HalvesVec(VSub(v_AS, v_AC)))

\* The routine on this constraint's own members.
BallImpl_realizePositionDotErrorsVirtual(c, mp) ==
    BallImpl_realizePositionDotErrorsVirtualOn(geom, c, mp)

\* paerr = a_AS - a_AC
BallImpl_realizePositionDotDotErrorsVirtualOn(g, c, mp) ==
    LET B1 == roles.b[1]
        B2 == roles.b[2]
        X_AB == getBodyTransformIn(c, B1)
        p_AS == calcStationLocationIn(c, B2, g.defaultPoint2)
        p_BC == XformInvPoint(X_AB, p_AS)
        a_AS == calcStationAccelerationIn(c, B2, g.defaultPoint2)
        a_AC == calcStationAccelerationIn(c, B1, p_BC)
    IN  ErrOut(mp, 3, HalvesVec(VSub(a_AS, a_AC)))

\* The routine on this constraint's own members.
BallImpl_realizePositionDotDotErrorsVirtual(c, mp) ==
    BallImpl_realizePositionDotDotErrorsVirtualOn(geom, c, mp)

\* Vec3(~RF.x()*RB.y(), ~RF.y()*RB.z(), ~RF.z()*RB.x())
OrientationError(RF, RB) ==
    <<Dot(Col(RF, 1), Col(RB, 2)), Dot(Col(RF, 2), Col(RB, 3)), Dot(Col(RF, 3), Col(RB, 1))>>

\* Vec3(~w_BF * (RF.x() % RB.y()), ~w_BF * (RF.y() % RB.z()), ~w_BF * (RF.z() % RB.x()))
OrientationDotError(w_BF, RF, RB) ==
    <<Dot(w_BF, Cross(Col(RF, 1), Col(RB, 2))),
      Dot(w_BF, Cross(Col(RF, 2), Col(RB, 3))),
      Dot(w_BF, Cross(Col(RF, 3), Col(RB, 1)))>>

\* dot(b_BF, RFi % RBj) + dot(w_BF, (w_AF%RFi) % RBj - (w_AB%RBj) % RFi)
OrientationDotDotError(b_BF, w_BF, w_AF, w_AB, RF, RB) ==
    LET E(i, j) == Dot(b_BF, Cross(Col(RF, i), Col(RB, j)))
                   + Dot(w_BF, VSub(Cross(Cross(w_AF, Col(RF, i)), Col(RB, j)),
                                    Cross(Cross(w_AB, Col(RB, j)), Col(RF, i))))
    IN  <<E(1, 2), E(2, 3), E(3, 1)>>

ConstantOrientationImpl_realizePositionErrorsVirtualOn(g, c, mp) ==
    LET RB == MatMul(getBodyRotationIn(c, roles.b[1]), g.defaultRB)
        RF == MatMul(getBodyRotationIn(c, roles.b[2]), g.defaultRF)
    IN  ErrOut(mp, 3, HalvesVec(OrientationError(RF, RB)))

\* The routine on this constraint's own members.
ConstantOrientationImpl_realizePositionErrorsVirtual(c, mp) ==
    ConstantOrientationImpl_realizePositionErrorsVirtualOn(geom, c, mp)

ConstantOrientationImpl_realizePositionDotErrorsVirtualOn(g, c, mp) ==
    LET B == roles.b[1]
        F == roles.b[2]
        RB == MatMul(getBodyRotationIn(c, B), g.defaultRB)
        RF == MatMul(getBodyRotationIn(c, F), g.defaultRF)
        w_BF == VSub(getBodyAngularVelocityIn(c, F), getBodyAngularVelocityIn(c, B))
    IN  ErrOut(mp, 3, HalvesVec(OrientationDotError(w_BF, RF, RB)))

\* The routine on this constraint's own members.
ConstantOrientationImpl_realizePositionDotErrorsVirtual(c, mp) ==
    ConstantOrientationImpl_realizePositionDotErrorsVirtualOn(geom, c, mp)

ConstantOrientationImpl_realizePositionDotDotErrorsVirtualOn(g, c, mp) ==
    LET B == roles.b[1]
        F == roles.b[2]
        RB == MatMul(getBodyRotationIn(c, B), g.defaultRB)
        RF == MatMul(getBodyRotationIn(c, F), g.defaultRF)
        w_AB == getBodyAngularVelocityIn(c, B)
        w_AF == getBodyAngularVelocityIn(c, F)
        b_BF == VSub(getBodyAngularAccelerationIn(c, F), getBodyAngularAccelerationIn(c, B))
    IN  ErrOut(mp, 3,
            HalvesVec(OrientationDotDotError(b_BF, VSub(w_AF, w_AB), w_AF, w_AB, RF, RB)))

\* The routine on this constraint's own members.
ConstantOrientationImpl_realizePositionDotDotErrorsVirtual(c, mp) ==
    ConstantOrientationImpl_realizePositionDotDotErrorsVirtualOn(geom, c, mp)

\* Mutant: perr+3 = p_AF1 - p_AF2
WeldImpl_realizePositionErrorsVirtual_Reversed(c, mp) ==
    LET B == roles.b[1]
        F == roles.b[2]
        RB == MatMul(getBodyRotationIn(c, B), geom.defaultFrameB.R)
        RF == MatMul(getBodyRotationIn(c, F), geom.defaultFrameF.R)
        p_AF1 == calcStationLocationIn(c, B, geom.defaultFrameB.T)
        p_AF2 == calcStationLocationIn(c, F, geom.defaultFrameF.T)
    IN  ErrOut(mp, 6, HalvesVec(OrientationError(RF, RB)) \o HalvesVec(VSub(p_AF1, p_AF2)))

\* The orientation error, then perr+3 = p_AF2 - p_AF1
WeldImpl_realizePositionErrorsVirtual(c, mp) ==
    LET B == roles.b[1]
        F == roles.b[2]
        RB == MatMul(getBodyRotationIn(c, B), geom.defaultFrameB.R)
        RF == MatMul(getBodyRotationIn(c, F), geom.defaultFrameF.R)
        p_AF1 == calcStationLocationIn(c, B, geom.defaultFrameB.T)
        p_AF2 == calcStationLocationIn(c, F, geom.defaultFrameF.T)
    IN  ErrOut(mp, 6, HalvesVec(OrientationError(RF, RB)) \o HalvesVec(VSub(p_AF2, p_AF1)))

\* The orientation error, then pverr+3 = v_AF2 - v_AC
WeldImpl_realizePositionDotErrorsVirtual(c, mp) ==
    LET B == roles.b[1]
        F == roles.b[2]
        RB == MatMul(getBodyRotationIn(c, B), geom.defaultFrameB.R)
        RF == MatMul(getBodyRotationIn(c, F), geom.defaultFrameF.R)
        w_BF == VSub(getBodyAngularVelocityIn(c, F), getBodyAngularVelocityIn(c, B))
        X_AB == getBodyTransformIn(c, B)
        p_AF2 == calcStationLocationIn(c, F, geom.defaultFrameF.T)
        p_BC == XformInvPoint(X_AB, p_AF2)
        v_AF2 == calcStationVelocityIn(c, F, geom.defaultFrameF.T)
        v_AC == calcStationVelocityIn(c, B, p_BC)
    IN  ErrOut(mp, 6, HalvesVec(OrientationDotError(w_BF, RF, RB))
                          \o HalvesVec(VSub(v_AF2, v_AC)))

\* The orientation error, then paerr+3 = a_AF2 - a_AC
WeldImpl_realizePositionDotDotErrorsVirtual(c, mp) ==
    LET B == roles.b[1]
        F == roles.b[2]
        RB == MatMul(getBodyRotationIn(c, B), geom.defaultFrameB.R)
        RF == MatMul(getBodyRotationIn(c, F), geom.defaultFrameF.R)
        w_AB == getBodyAngularVelocityIn(c, B)
        w_AF == getBodyAngularVelocityIn(c, F)
        b_BF == VSub(getBodyAngularAccelerationIn(c, F), getBodyAngularAccelerationIn(c, B))
        X_AB == getBodyTransformIn(c, B)
        p_AF2 == calcStationLocationIn(c, F, geom.defaultFrameF.T)
        p_BC == XformInvPoint(X_AB, p_AF2)
        a_AF2 == calcStationAccelerationIn(c, F, geom.defaultFrameF.T)
        a_AC == calcStationAccelerationIn(c, B, p_BC)
    IN  ErrOut(mp, 6,
            HalvesVec(OrientationDotDotError(b_BF, VSub(w_AF, w_AB), w_AF, w_AB, RF, RB))
                \o HalvesVec(VSub(a_AF2, a_AC)))

\* verr = ~(v_AP1-v_AP0) * n_A
NoSlip1DImpl_realizeVelocityErrorsVirtual(c, mv) ==
    LET caseBody == roles.b[1]
        movingBody0 == roles.b[2]
        movingBody1 == roles.b[3]
        X_AC == getBodyTransformIn(c, caseBody)
        p_AP == XformPoint(X_AC, geom.defaultContactPoint)
        p_P0 == XformInvPoint(getBodyTransformIn(c, movingBody0), p_AP)
        p_P1 == XformInvPoint(getBodyTransformIn(c, movingBody1), p_AP)
        n_A == MatVec(X_AC.R, geom.defaultNoSlipDirection)
        v_AP0 == calcStationVelocityIn(c, movingBody0, p_P0)
        v_AP1 == calcStationVelocityIn(c, movingBody1, p_P1)
    IN  ErrOut(mv, 1, <<Halves(Dot(VSub(v_AP1, v_AP0), n_A))>>)

\* vaerr = ~(a_AP1-a_AP0 - w_AC % (v_AP1-v_AP0)) * n_A
NoSlip1DImpl_realizeVelocityDotErrorsVirtual(c, mv) ==
    LET caseBody == roles.b[1]
        movingBody0 == roles.b[2]
        movingBody1 == roles.b[3]
        X_AC == getBodyTransformIn(c, caseBody)
        p_AP == XformPoint(X_AC, geom.defaultContactPoint)
        p_P0 == XformInvPoint(getBodyTransformIn(c, movingBody0), p_AP)
        p_P1 == XformInvPoint(getBodyTransformIn(c, movingBody1), p_AP)
        n_A == MatVec(X_AC.R, geom.defaultNoSlipDirection)
        v_AP0 == calcStationVelocityIn(c, movingBody0, p_P0)
        v_AP1 == calcStationVelocityIn(c, movingBody1, p_P1)
        w_AC == getBodyAngularVelocityIn(c, caseBody)
        a_AP0 == calcStationAccelerationIn(c, movingBody0, p_P0)
        a_AP1 == calcStationAccelerationIn(c, movingBody1, p_P1)
    IN  ErrOut(mv, 1,
            <<Halves(Dot(VSub(VSub(a_AP1, a_AP0), Cross(w_AC, VSub(v_AP1, v_AP0))), n_A))>>)

\* Mutant: *verr = getOneU(s, theMobilizer, whichMobility);
ConstantSpeedImpl_realizeVelocityErrorsVirtual_NoTarget(c, mv) ==
    IF ~(0 <= geom.whichMobility /\ geom.whichMobility < getNumConstrainedUOf(roles.m[1]))
    THEN [ok |-> FALSE, err |-> "assert", out |-> <<>>]
    ELSE ErrOut(mv, 1, <<getOneU(c, roles.m[1], geom.whichMobility)>>)

\* verr = u - s
ConstantSpeedImpl_realizeVelocityErrorsVirtual(c, mv) ==
    IF ~(0 <= geom.whichMobility /\ geom.whichMobility < getNumConstrainedUOf(roles.m[1]))
    THEN [ok |-> FALSE, err |-> "assert", out |-> <<>>]
    ELSE ErrOut(mv, 1,
                <<getOneU(c, roles.m[1], geom.whichMobility) - geom.prescribedSpeed>>)

\* vaerr = udot
ConstantSpeedImpl_realizeVelocityDotErrorsVirtual(c, mv) ==
    IF ~(0 <= geom.whichMobility /\ geom.whichMobility < getNumConstrainedUOf(roles.m[1]))
    THEN [ok |-> FALSE, err |-> "assert", out |-> <<>>]
    ELSE ErrOut(mv, 1, <<getOneUDot(c, roles.m[1], geom.whichMobility)>>)

\* An error routine of the base class, for a kind that defines none.
BaseRealizeErrors == [ok |-> FALSE, err |-> "UnimplementedError", out |-> <<>>]

\* A routine that reads a cache of the State s itself needs that stage realized.
Needs(stageName, r) ==
    IF StageRealized(stage, stageName) THEN r
    ELSE [ok |-> FALSE, err |-> "PreconditionError", out |-> <<>>]

\* realizePositionErrors(s, pc, mp, perr): the kind's realizePositionErrorsVirtual.
realizePositionErrors(c, mp) ==
    CASE kind = "Rod" -> RodImpl_realizePositionErrorsVirtual(c, mp)
      [] kind = "PointInPlane" -> PointInPlaneImpl_realizePositionErrorsVirtual(c, mp)
      [] kind = "PointOnLine" -> PointOnLineImpl_realizePositionErrorsVirtual(c, mp)
      [] kind = "ConstantAngle" -> ConstantAngleImpl_realizePositionErrorsVirtual(c, mp)
      [] kind = "Ball" -> BallImpl_realizePositionErrorsVirtual(c, mp)
      [] kind = "ConstantOrientation" ->
            ConstantOrientationImpl_realizePositionErrorsVirtual(c, mp)
      [] kind = "Weld" -> WeldImpl_realizePositionErrorsVirtual(c, mp)
      [] OTHER -> BaseRealizeErrors

\* realizePositionDotErrors(s, vc, mp, pverr): positions come from the State.
realizePositionDotErrors(c, mp) ==
    CASE kind = "Rod" -> Needs("Position", RodImpl_realizePositionDotErrorsVirtual(c, mp))
      [] kind = "PointInPlane" ->
            Needs("Position", PointInPlaneImpl_realizePositionDotErrorsVirtual(c, mp))
      [] kind = "PointOnLine" ->
            Needs("Position", PointOnLineImpl_realizePositionDotErrorsVirtual(c, mp))
      [] kind = "ConstantAngle" ->
            Needs("Position", ConstantAngleImpl_realizePositionDotErrorsVirtual(c, mp))
      [] kind = "Ball" -> Needs("Position", BallImpl_realizePositionDotErrorsVirtual(c, mp))
      [] kind = "ConstantOrientation" ->
            Needs("Position", ConstantOrientationImpl_realizePositionDotErrorsVirtual(c, mp))
      [] kind = "Weld" -> Needs("Position", WeldImpl_realizePositionDotErrorsVirtual(c, mp))
      [] OTHER -> BaseRealizeErrors

\* realizePositionDotDotErrors(s, ac, mp, paerr): positions and velocities
\* come from the State.
realizePositionDotDotErrors(c, mp) ==
    CASE kind = "Rod" -> Needs("Velocity", RodImpl_realizePositionDotDotErrorsVirtual(c, mp))
      [] kind = "PointInPlane" ->
            Needs("Velocity", PointInPlaneImpl_realizePositionDotDotErrorsVirtual(c, mp))
      [] kind = "PointOnLine" ->
            Needs("Velocity", PointOnLineImpl_realizePositionDotDotErrorsVirtual(c, mp))
      [] kind = "ConstantAngle" ->
            Needs("Velocity", ConstantAngleImpl_realizePositionDotDotErrorsVirtual(c, mp))
      [] kind = "Ball" -> Needs("Velocity", BallImpl_realizePositionDotDotErrorsVirtual(c, mp))
      [] kind = "ConstantOrientation" ->
            Needs("Velocity",
                  ConstantOrientationImpl_realizePositionDotDotErrorsVirtual(c, mp))
      [] kind = "Weld" -> Needs("Velocity", WeldImpl_realizePositionDotDotErrorsVirtual(c, mp))
      [] OTHER -> BaseRealizeErrors

\* realizeVelocityErrors(s, vc, mv, verr)
realizeVelocityErrors(c, mv) ==
    CASE kind = "NoSlip1D" -> Needs("Position", NoSlip1DImpl_realizeVelocityErrorsVirtual(c, mv))
      [] kind = "ConstantSpeed" ->
            Needs("Model", ConstantSpeedImpl_realizeVelocityErrorsVirtual(c, mv))
      [] OTHER -> BaseRealizeErrors

\* realizeVelocityDotErrors(s, ac, mv, vaerr)
realizeVelocityDotErrors(c, mv) ==
    CASE kind = "NoSlip1D" ->
            Needs("Velocity", NoSlip1DImpl_realizeVelocityDotErrorsVirtual(c, mv))
      [] kind = "ConstantSpeed" ->
            Needs("Model", ConstantSpeedImpl_realizeVelocityDotErrorsVirtual(c, mv))
      [] OTHER -> BaseRealizeErrors

(***************************************************************************)
(* Error routines as the owning subsystem calls them while it realizes a   *)
(* stage: the caller's array comes back as the routine wrote it.           *)
(***************************************************************************)
RealizeErrors(op, n, r) ==
    /\ outbuf' = r.out
    /\ ret' = Ret(op, r.ok, r.err, -1, <<n>>, stage)
    /\ bodyForcesInA' = <<>> /\ mobilityForces' = <<>> /\ generalizedForces' = <<>>
    /\ UNCHANGED <<sbCache, kindVars, stage, indexVars, countVars, topoCache, cInfo>>

\* Called with the position cache being filled, once Time is realized.
RealizePositionErrors ==
    /\ StageRealized(stage, "Time")
    /\ \E mp \in {defaultMp, defaultMp + 1} :
        \E r \in {realizePositionErrors(sbCache, mp)} :
            RealizeErrors("realizePositionErrors", mp, r)

RealizePositionDotErrors ==
    \E mp \in {defaultMp, defaultMp + 1} :
        \E r \in {realizePositionDotErrors(sbCache, mp)} :
            RealizeErrors("realizePositionDotErrors", mp, r)

RealizePositionDotDotErrors ==
    \E mp \in {defaultMp, defaultMp + 1} :
        \E r \in {realizePositionDotDotErrors(sbCache, mp)} :
            RealizeErrors("realizePositionDotDotErrors", mp, r)

RealizeVelocityErrors ==
    \E mv \in {defaultMv, defaultMv + 1} :
        \E r \in {realizeVelocityErrors(sbCache, mv)} :
            RealizeErrors("realizeVelocityErrors", mv, r)

RealizeVelocityDotErrors ==
    \E mv \in {defaultMv, defaultMv + 1} :
        \E r \in {realizeVelocityDotErrors(sbCache, mv)} :
            RealizeErrors("realizeVelocityDotErrors", mv, r)

(***************************************************************************)
(* SpecKinematics: a constructed constraint of a built-in kind in a        *)
(* mechanism at one of four instants of a motion; its errors and forces    *)
(* are computed at every stage.                                            *)
(***************************************************************************)
\* Every body unrotated on the x axis, body b at distance b (Near) or 2b
\* (Far) from the origin, nothing moving but the mobilities: speed 2.0 with
\* no acceleration (Near), speed 2.5 with acceleration 1.5 (Far).
AlignedNear ==
    LET X(b) == [R |-> IdentityR, T |-> <<b, 0, 0>>]
        Still(b) == ZeroSpatial
    IN  SBCache(X, Still, Still, 4, 0)

AlignedFar ==
    LET X(b) == [R |-> IdentityR, T |-> <<2 * b, 0, 0>>]
        Still(b) == ZeroSpatial
    IN  SBCache(X, Still, Still, 5, 3)

\* The default configuration with every body moving on its own.
Moving ==
    LET V(b) == CASE b = 0 -> <<<<0, 0, 1>>, <<1, 0, 0>>>>
                  [] b = 1 -> <<<<1, 0, -1>>, <<0, 1, 2>>>>
                  [] b = 2 -> <<<<0, 2, 1>>, <<-1, 0, 1>>>>
                  [] OTHER -> <<<<1, 1, 0>>, <<2, 0, 0>>>>
        A(b) == CASE b = 0 -> <<<<1, 0, 0>>, <<0, -1, 0>>>>
                  [] b = 1 -> <<<<0, 1, 1>>, <<1, 0, 0>>>>
                  [] b = 2 -> <<<<-1, 0, 2>>, <<0, 0, 1>>>>
                  [] OTHER -> <<<<0, 0, 1>>, <<1, 1, 0>>>>
    IN  SBCache(DefaultPose, V, A, 5, -3)

\* The default configuration with all bodies moving as one rigid body:
\* angular velocity w, and origin velocity v0 + w % T of the body at T.
RigidMotion ==
    LET w == <<0, 1, 1>>
        v0 == <<1, 0, 0>>
        V(b) == <<w, VAdd(v0, Cross(w, DefaultPose(b).T))>>
        A(b) == <<<<0, 0, 1>>, <<b, 1, 0>>>>
    IN  SBCache(DefaultPose, V, A, 4, 1)

Scenes == {AlignedNear, AlignedFar, Moving, RigidMotion}

InitKinematics ==
    /\ \E k \in BuiltInKinds :
          \E bs \in HandleBodies(KindNumBodies(k)),
             ms \in HandleMobilizers(KindNumMobilizers(k)), g \in KindGeoms(k) :
                Constructed(k, bs, ms, g)
    /\ sbCache \in Scenes

NextKinematics ==
    \/ \E i \in 1..Len(StageOrder) : Realize(i, {0})
    \/ InvalidateTopologyCache
    \/ RealizePositionErrors
    \/ RealizePositionDotErrors
    \/ RealizePositionDotDotErrors
    \/ RealizeVelocityErrors
    \/ RealizeVelocityDotErrors
    \/ CalcConstraintForcesFromMultipliers
    \/ GetNumConstrainedBodies
    \/ GetConstraintEquationSlots

SpecKinematics == InitKinematics /\ [][NextKinematics]_vars

(***************************************************************************)
(* SpecStations: the station queries on the State, asked of a constraint   *)
(* with two or three constrained bodies at every stage.                    *)
(***************************************************************************)
\* calcStationLocation(s, B, p_B) and the like: the cache of the State s for
\* the level must be realized.
StationQuery(stageName, v) ==
    IF StageRealized(stage, stageName) THEN [ok |-> TRUE, err |-> "", val |-> v]
    ELSE [ok |-> FALSE, err |-> "PreconditionError", val |-> Zero3]

calcStationVelocity(B, p_B) ==
    StationQuery("Velocity", calcStationVelocityIn(sbCache, B, p_B))

calcStationAcceleration(B, p_B) ==
    StationQuery("Acceleration", calcStationAccelerationIn(sbCache, B, p_B))

\* Stations in a body's own frame.
StationInputs == {Zero3, <<1, 0, 0>>, <<0, 2, 1>>}

StationCall(op, B, p_B, r) ==
    /\ ret' = Ret(op, r.ok, r.err, r.val, <<B, p_B>>, stage)
    /\ UNCHANGED <<sbCache, kindVars, stage, indexVars, countVars, topoCache, cInfo>>
    /\ NoBuffers

CalcStationLocation ==
    \E B \in 0..(Len(myConstrainedBodies) - 1), p_B \in StationInputs :
        StationCall("calcStationLocation", B, p_B,
                    StationQuery("Position", calcStationLocation(B, p_B)))

CalcStationVelocity ==
    \E B \in 0..(Len(myConstrainedBodies) - 1), p_B \in StationInputs :
        StationCall("calcStationVelocity", B, p_B, calcStationVelocity(B, p_B))

CalcStationAcceleration ==
    \E B \in 0..(Len(myConstrainedBodies) - 1), p_B \in StationInputs :
        StationCall("calcStationAcceleration", B, p_B, calcStationAcceleration(B, p_B))

InitStations ==
    /\ \E k \in {"Ball", "NoSlip1D"} :
          \E bs \in HandleBodies(KindNumBodies(k)), g \in KindGeoms(k) :
                Constructed(k, bs, <<>>, g)
    /\ sbCache \in Scenes

NextStations ==
    \/ \E i \in 1..Len(StageOrder) : Realize(i, {0})
    \/ InvalidateTopologyCache
    \/ CalcStationLocation
    \/ CalcStationVelocity
    \/ CalcStationAcceleration

SpecStations == InitStations /\ [][NextStations]_vars

(***************************************************************************)
(* Claims about the index map (SpecIndex).                                 *)
(***************************************************************************)
\* C1: addConstrainedBody and addConstrainedMobilizer called once the
\* subsystem topology is realized fail with a configuration error and leave
\* both lists and both maps as they were.
C1_AddAfterTopologyFails ==
    [][(/\ ret'.op \in {"addConstrainedBody", "addConstrainedMobilizer"}
        /\ subsystemTopologyHasBeenRealized(stage))
       => (/\ ~ret'.ok
           /\ ret'.err = "ConfigurationError"
           /\ UNCHANGED indexVars)]_vars

\* A new body is offered to a constraint that has bodies, after topology
\* realization, and is refused.
C1_Witness ==
    /\ ret.op = "addConstrainedBody"
    /\ subsystemTopologyHasBeenRealized(ret.pre)
    /\ ret.args[1] \notin DOMAIN myMobilizedBody2ConstrainedBodyMap
    /\ Len(myConstrainedBodies) >= 1
    /\ ~ret.ok

\* The dense list and the ordered map hold the same entries and invert
\* each other.
MutuallyInverse(list, map) ==
    /\ DOMAIN map = Range(list)
    /\ Cardinality(DOMAIN map) = Len(list)
    /\ \A c \in 1..Len(list) : map[list[c]] = c - 1
    /\ \A g \in DOMAIN map : map[g] \in 0..(Len(list) - 1) /\ list[map[g] + 1] = g

IsMutatorCall == ret.op \in {"setDefaultNumConstraints", "set", "setFrameColor"}

\* C7: every mutator of construction-time data calls invalidateTopologyCache,
\* so when it has returned the topology is not realized, whatever was
\* realized before the call.
C7_MutatorsInvalidateTopology ==
    (IsMutatorCall /\ ret.ok) => ~subsystemTopologyHasBeenRealized(stage)

\* A display setter was called with every stage realized.
C7_Witness ==
    /\ kind = "NoSlip1D"
    /\ ret.op = "set"
    /\ ret.applied = {"directionLength"}
    /\ ret.pre = Len(StageOrder)
    /\ stage = 0

\* C8 as stated: once topology is realized a mutator call is rejected and
\* the stored counts and constants stay unchanged.
C8_AsStated ==
    [][(/\ ret'.op \in {"setDefaultNumConstraints", "set", "setFrameColor"}
        /\ subsystemTopologyHasBeenRealized(stage))
       => (~ret'.ok /\ UNCHANGED <<countVars, disp>>)]_vars

\* What a Real-valued display setter stores for argument v.
StoredDisplayValue(field, v) ==
    IF v > 0 THEN v
    ELSE IF field = "axisDisplayLength" /\ v < 0 THEN -100
    ELSE 0

\* C8 amended: a mutator is accepted in every realization state, also after
\* topology realization (only a negative count or a frame index other than
\* 0 and 1 is refused), and the new counts or constant are stored.
C8_MutatorsAcceptedInAnyStage ==
    /\ ret.op = "setDefaultNumConstraints"
        => /\ ret.ok <=> ret.args[1] >= 0
           /\ ret.ok => <<defaultMp, defaultMv, defaultMa>> = ret.args
    /\ ret.op = "set"
        => /\ ret.ok
           /\ \A f \in ret.applied : disp[f] = StoredDisplayValue(f, ret.val)
    /\ ret.op = "setFrameColor" => (ret.ok <=> ret.val \in {0, 1})

\* New counts were stored by a call made with topology realized.
C8_Witness ==
    /\ ret.op = "setDefaultNumConstraints"
    /\ subsystemTopologyHasBeenRealized(ret.pre)
    /\ ret.ok
    /\ <<defaultMp, defaultMv, defaultMa>> = ret.args
    /\ ret.args # KindDefaults(kind)

AssignedSlots(Arr(_)) ==
    [j \in 1..cInfo.mp |-> Arr(cInfo.holo0 + j - 1)]
    \o [j \in 1..cInfo.mv |-> Arr(cInfo.totalNumHolo + cInfo.nonholo0 + j - 1)]
    \o [j \in 1..cInfo.ma |->
            Arr(cInfo.totalNumHolo + cInfo.totalNumNonholo + cInfo.accOnly0 + j - 1)]

\* The call got count n where `expected' is current, and wrote `values'.
ExtractsExactly(expected, values) ==
    LET n == ret.args[1] IN
    /\ n # expected => ~ret.ok
    /\ ret.ok => /\ SubSeq(outbuf, 1, n) = SubSeq(values, 1, n)
                 /\ \A i \in (n + 1)..Len(outbuf) : outbuf[i] = Unwritten
    /\ ~ret.ok => outbuf = CallerArray

\* C2: getPositionErrors fails unless n = mp, getVelocityErrors unless
\* n = mp+mv, getAccelerationErrors and getMultipliers unless n = mp+mv+ma;
\* on a match exactly n entries of out are written, copied from this
\* constraint's assigned slots.
C2_ErrorsCopiedFromAssignedSlots ==
    /\ ret.op = "getPositionErrors" => ExtractsExactly(cInfo.mp, AssignedSlots(QErr))
    /\ ret.op = "getVelocityErrors"
        => ExtractsExactly(cInfo.mp + cInfo.mv, AssignedSlots(UErr))
    /\ ret.op = "getAccelerationErrors"
        => ExtractsExactly(cInfo.mp + cInfo.mv + cInfo.ma, AssignedSlots(UDotErr))
    /\ ret.op = "getMultipliers"
        => ExtractsExactly(cInfo.mp + cInfo.mv + cInfo.ma, AssignedSlots(Multipliers))

\* Velocity errors of a constraint with equations of both kinds, placed
\* behind other constraints' equations, were extracted.
C2_Witness ==
    /\ ret.op = "getVelocityErrors"
    /\ ret.ok
    /\ cInfo.mp > 0 /\ cInfo.mv > 0
    /\ cInfo.holo0 > 0 /\ cInfo.nonholo0 > 0
    /\ ret.args[1] = cInfo.mp + cInfo.mv
    /\ outbuf[1] # Unwritten

(***************************************************************************)
(* Claims about constraint forces (SpecForces).                            *)
(***************************************************************************)
IsCalc == ret.op = "calcConstraintForcesFromMultipliers"

Categories == <<"p", "v", "a">>

\* C3: calcConstraintForcesFromMultipliers fails whenever a nonzero passed
\* count differs from the constraint's actual count of that category; a
\* passed count of zero is accepted for any actual count and that category's
\* apply routine is then not invoked.
C3_PassedCountsChecked ==
    IsCalc =>
        LET actual == <<cInfo.mp, cInfo.mv, cInfo.ma>> IN
        /\ (\E c \in 1..3 : ret.args[c] # 0 /\ ret.args[c] # actual[c]) => ~ret.ok
        /\ \A c \in 1..3 : ret.args[c] = 0 => Categories[c] \notin ret.applied
        /\ ((\A c \in 1..3 : ret.args[c] = 0) /\ StageRealized(ret.pre, "Model")) => ret.ok
        /\ ret.ok => ret.applied = {Categories[c] : c \in {d \in 1..3 : ret.args[d] # 0}}

\* A constraint with position equations was asked for its velocity forces
\* only: the zero position count passed, and only the velocity routine ran.
C3_Witness ==
    /\ IsCalc
    /\ ret.ok
    /\ cInfo.mp > 0
    /\ ret.args[1] = 0
    /\ ret.applied = {"v"}

\* C4 as stated: the call sizes both buffers, body forces to the constrained
\* bodies and mobility forces to the constrained mobilities, and zeroes
\* them, so what returns does not depend on what the caller's buffers held.
C4_AsStated ==
    (IsCalc /\ ret.ok) =>
        /\ Len(bodyForcesInA) = Len(myConstrainedBodies)
        /\ Len(mobilityForces) = getNumConstrainedU
        /\ ret.applied = {} =>
            /\ \A i \in 1..Len(bodyForcesInA) : bodyForcesInA[i] = ZeroSpatial
            /\ \A i \in 1..Len(mobilityForces) : mobilityForces[i] = 0

\* C5 as stated: the conversion, and with it calcGTransposeLambda, ends in
\* the not-implemented failure for every input and leaves f alone.
C5_AsStated ==
    /\ ret.op = "convertConstraintForcesToGeneralizedForces"
        => (~ret.ok /\ ret.err = "UnimplementedError" /\ generalizedForces = ret.args[3])
    /\ ret.op = "calcGTransposeLambda"
        => (~ret.ok /\ ret.err = "UnimplementedError" /\ generalizedForces = ret.args[5])

\* C5 amended: the conversion ends in the not-implemented failure for every
\* input, and calcGTransposeLambda never returns normally and never writes
\* f; its failure is the not-implemented one exactly when its first step,
\* the forces from the multipliers on empty local buffers, succeeds, and is
\* that step's failure otherwise.
C5_NeverReturnsNormally ==
    /\ ret.op = "convertConstraintForcesToGeneralizedForces"
        => (~ret.ok /\ ret.err = "UnimplementedError" /\ generalizedForces = ret.args[3])
    /\ ret.op = "calcGTransposeLambda"
        => \E c \in {calcConstraintForcesFromMultipliers(
                        ret.args[1], ret.args[2], ret.args[3], ret.args[4], <<>>, <<>>)} :
            /\ ~ret.ok
            /\ generalizedForces = ret.args[5]
            /\ ret.err = IF c.ok THEN "UnimplementedError" ELSE c.err
            /\ ~c.ok => c.err # "UnimplementedError"

\* calcGTransposeLambda computed forces from multipliers, then failed as not
\* implemented with the caller's f as it was.
C5_Witness ==
    /\ ret.op = "calcGTransposeLambda"
    /\ ~ret.ok
    /\ ret.err = "UnimplementedError"
    /\ kind \in BuiltInKinds
    /\ ret.applied # {}
    /\ generalizedForces = <<7, 7>>

NeedTopology ==
    {"getNumConstrainedBodies", "getNumConstrainedMobilizers", "addInStationForce",
     "addInBodyTorque", "calcConstraintForcesFromMultipliers"}

\* C6: while the subsystem topology is not realized, getNumConstrainedBodies,
\* getNumConstrainedMobilizers, addInStationForce, addInBodyTorque and
\* calcConstraintForcesFromMultipliers fail, returning no value and leaving
\* the caller's buffers as they were passed.
C6_FailsWithoutTopology ==
    (ret.op \in NeedTopology /\ ~subsystemTopologyHasBeenRealized(ret.pre)) =>
        /\ ~ret.ok
        /\ ret.val = -1
        /\ IsCalc => (bodyForcesInA = ret.args[5] /\ mobilityForces = ret.args[6])
        /\ ret.op = "addInStationForce" => bodyForcesInA = ret.args[4]
        /\ ret.op = "addInBodyTorque" => bodyForcesInA = ret.args[3]

\* Forces were asked of a PointOnLine whose topology had been realized (its
\* x and y are computed) and then invalidated, with a used buffer.
C6_Witness ==
    /\ kind = "PointOnLine"
    /\ ~topoCache.nan
    /\ IsCalc
    /\ ret.pre = 0
    /\ ret.args[5] # <<>>
    /\ ~ret.ok

(***************************************************************************)
(* Claims about the equation slots (SpecErrors).                           *)
(***************************************************************************)
\* The slots [first, first + n) as a set; empty when n = 0.
SlotRange(first, n) == {first + j : j \in 0..(n - 1)}

\* The slot ranges of this constraint in the mechanism's velocity- and
\* acceleration-level arrays, then those of the constraints ahead of it.
SlotRangesOf(ci, offsets) ==
    <<SlotRange(offsets[1], ci.mp),
      SlotRange(ci.totalNumHolo + offsets[2], ci.mv),
      SlotRange(ci.totalNumHolo + ci.totalNumNonholo + offsets[3], ci.ma),
      SlotRange(0, ci.totalNumHolo - ci.mp),
      SlotRange(ci.totalNumHolo, ci.totalNumNonholo - ci.mv),
      SlotRange(ci.totalNumHolo + ci.totalNumNonholo, ci.totalNumAccOnly - ci.ma)>>

\* C11: once the Model stage is realized, the slot ranges that
\* getConstraintEquationSlots returns for this constraint's three categories
\* hold mp, mv and ma slots, are pairwise disjoint and disjoint from the
\* ranges of the mechanism's other constraints, and the offset of a category
\* is -1 exactly when the constraint has no equation in that category.
C11_SlotRangesDisjoint ==
    (ret.op = "getConstraintEquationSlots" /\ ret.ok) =>
        LET rs == SlotRangesOf(cInfo, ret.val)
            n == <<cInfo.mp, cInfo.mv, cInfo.ma>>
        IN  /\ \A c \in 1..3 : Cardinality(rs[c]) = n[c]
            /\ \A c, d \in 1..6 : c # d => rs[c] \cap rs[d] = {}
            /\ \A c \in 1..3 : (ret.val[c] = -1) <=> (n[c] = 0)

\* A constraint with holonomic equations behind another constraint's, and
\* without nonholonomic ones, was asked for its slots.
C11_Witness ==
    /\ ret.op = "getConstraintEquationSlots" /\ ret.ok
    /\ ret.val[1] > 0 /\ cInfo.mp > 0
    /\ ret.val[2] = -1 /\ cInfo.totalNumNonholo > 0
    /\ cInfo.ma > 0

(***************************************************************************)
(* Claims about the equation counts (SpecConfig).                          *)
(***************************************************************************)
\* The counts C12 lists for the built-in kinds.
C12_ListedCounts ==
    [Rod |-> <<1, 0, 0>>, PointInPlane |-> <<1, 0, 0>>, PointOnLine |-> <<2, 0, 0>>,
     ConstantAngle |-> <<1, 0, 0>>, Ball |-> <<3, 0, 0>>,
     ConstantOrientation |-> <<3, 0, 0>>, Weld |-> <<6, 0, 0>>,
     NoSlip1D |-> <<0, 1, 0>>, ConstantSpeed |-> <<0, 1, 0>>]

\* C12: in every state calcNumConstraintEquations returns the default
\* counts; those are the listed counts of the built-in kind when the
\* constraint is constructed, and change only by a setDefaultNumConstraints
\* call that returns, to the counts (a, b, c) that call was given.
C12_CountsAreTheDefaults ==
    /\ kind \in BuiltInKinds
          => <<defaultMp, defaultMv, defaultMa>> = C12_ListedCounts[kind]
    /\ [][/\ ret'.op = "calcNumConstraintEquations"
              => ret'.ok /\ ret'.val = <<defaultMp, defaultMv, defaultMa>>
          /\ ~UNCHANGED countVars
              => /\ ret'.op = "setDefaultNumConstraints" /\ ret'.ok
                 /\ <<defaultMp', defaultMv', defaultMa'>> = ret'.args]_vars

\* A Weld, constructed with six holonomic equations, reported the counts it
\* was set to afterwards.
C12_Witness ==
    /\ ret.op = "calcNumConstraintEquations"
    /\ kind = "Weld"
    /\ ret.val = <<0, 1, 1>>

(***************************************************************************)
(* Claims about the constraint errors and forces of the built-in kinds     *)
(* (SpecKinematics).                                                       *)
(***************************************************************************)
\* The ancestor-frame location of the station p_B of constrained body B.
StationInA(B, p_B) ==
    LET X == sbCache.X[myConstrainedBodies[B + 1]] IN VAdd(MatVec(X.R, p_B), X.T)

RodEnds == <<StationInA(roles.b[1], geom.defaultPoint1),
             StationInA(roles.b[2], geom.defaultPoint2)>>

\* C13: the Rod's position error is (|p2-p1|^2 - d^2)/2 for the end points
\* p1, p2 in the ancestor frame and the rod length d: it is 0 when the
\* points are d apart, 0 for p1 = (0,0,0), p2 = (1,0,0), d = 1, and 1.5 for
\* p1 = (0,0,0), p2 = (2,0,0), d = 1.  (The array holds halves: 1.5 is 3.)
C13_RodPositionError ==
    (kind = "Rod" /\ ret.op = "realizePositionErrors" /\ ret.ok) =>
        LET p == VSub(RodEnds[2], RodEnds[1])
            d == geom.defaultRodLength
        IN  /\ Len(outbuf) = 1
            /\ 2 * outbuf[1] = Halves(Dot(p, p) - d * d)
            /\ (Dot(p, p) = d * d => outbuf[1] = 0)
            /\ (RodEnds = <<Zero3, <<1, 0, 0>>>> /\ d = 1 => outbuf[1] = 0)
            /\ (RodEnds = <<Zero3, <<2, 0, 0>>>> /\ d = 1 => outbuf[1] = 3)

C13_Witness ==
    /\ kind = "Rod" /\ ret.op = "realizePositionErrors" /\ ret.ok
    /\ RodEnds = <<Zero3, <<2, 0, 0>>>> /\ geom.defaultRodLength = 1
    /\ outbuf = <<3>>

\* The speed and acceleration (in halves) of the mobility a ConstantSpeed
\* constraint controls.
ControlledU ==
    sbCache.u[myConstrainedMobilizers[roles.m[1] + 1]][geom.whichMobility + 1]
ControlledUDot ==
    sbCache.udot[myConstrainedMobilizers[roles.m[1] + 1]][geom.whichMobility + 1]

\* C14: the ConstantSpeed velocity error is verr = u - s for the mobility's
\* speed u and the prescribed speed s (0 for s = 2.0, u = 2.0; 0.5 for
\* s = 2.0, u = 2.5), and its derivative error is vaerr = udot whatever s
\* is.  (Speeds and errors are in halves: 2.0 is 4, 0.5 is 1.)
C14_ConstantSpeedErrors ==
    (kind = "ConstantSpeed" /\ ret.ok) =>
        /\ ret.op = "realizeVelocityErrors" =>
              /\ outbuf = <<ControlledU - geom.prescribedSpeed>>
              /\ (geom.prescribedSpeed = 4 /\ ControlledU = 4 => outbuf = <<0>>)
              /\ (geom.prescribedSpeed = 4 /\ ControlledU = 5 => outbuf = <<1>>)
        /\ ret.op = "realizeVelocityDotErrors" => outbuf = <<ControlledUDot>>

C14_Witness ==
    /\ kind = "ConstantSpeed" /\ ret.op = "realizeVelocityErrors" /\ ret.ok
    /\ geom.prescribedSpeed = 4 /\ ControlledU = 5
    /\ outbuf = <<1>>

\* The sum over the buffer's entries of element k of each SpatialVec.
SumOver(buf, k) ==
    LET RECURSIVE Sum(_)
        Sum(i) == IF i = 0 THEN Zero3 ELSE VAdd(Sum(i - 1), buf[i][k])
    IN  Sum(Len(buf))

BodyForceKinds == BuiltInKinds \ {"ConstantSpeed"}

\* The forces of a call that ran the kind's apply routine to its end.
ForcesApplied ==
    /\ ret.op = "calcConstraintForcesFromMultipliers" /\ ret.ok
    /\ ret.applied # {}

\* C15: for Rod, PointInPlane, PointOnLine, ConstantAngle, Ball,
\* ConstantOrientation, Weld and NoSlip1D, in every configuration and for
\* every multiplier vector, the forces (element [1]) the apply routine puts
\* in the zeroed body-force buffer sum to the zero vector.
C15_ForcesSumToZero ==
    (kind \in BodyForceKinds /\ ForcesApplied) => SumOver(bodyForcesInA, 2) = Zero3

C15_Witness ==
    /\ kind = "NoSlip1D" /\ ForcesApplied
    /\ sbCache = Moving
    /\ bodyForcesInA[2][2] # Zero3
    /\ bodyForcesInA[3][2] = VNeg(bodyForcesInA[2][2])

\* The moment about the ancestor origin of the spatial forces in the
\* buffer: each body's torque plus its origin location crossed with its force.
MomentAboutA(buf) ==
    LET RECURSIVE Sum(_)
        Sum(i) == IF i = 0 THEN Zero3
                  ELSE VAdd(Sum(i - 1),
                            VAdd(buf[i][1],
                                 Cross(sbCache.X[myConstrainedBodies[i]].T, buf[i][2])))
    IN  Sum(Len(buf))

\* C16 as stated: for every body-force kind, in every configuration and for
\* every multiplier vector, the torques (element [0]) accumulated in the
\* body-force buffer sum to the zero vector.
C16_AsStated ==
    (kind \in BodyForceKinds /\ ForcesApplied) => SumOver(bodyForcesInA, 1) = Zero3

\* C16: for every body-force kind, in every configuration and for every
\* multiplier vector, the spatial forces in the buffer have zero moment
\* about the ancestor origin (torques plus origin locations crossed with
\* forces); the torques alone sum to zero for the kinds that apply torques
\* only, ConstantAngle and ConstantOrientation.
C16_MomentsSumToZero ==
    (kind \in BodyForceKinds /\ ForcesApplied) =>
        /\ MomentAboutA(bodyForcesInA) = Zero3
        /\ kind \in {"ConstantAngle", "ConstantOrientation"}
              => SumOver(bodyForcesInA, 1) = Zero3

C16_Witness ==
    /\ kind = "Ball" /\ ForcesApplied
    /\ SumOver(bodyForcesInA, 1) # Zero3
    /\ MomentAboutA(bodyForcesInA) = Zero3

\* The kind's velocity-level error in the State's caches: pverr of a
\* holonomic kind, verr of a nonholonomic one.
VelocityError ==
    IF kind \in {"NoSlip1D", "ConstantSpeed"}
    THEN realizeVelocityErrors(sbCache, defaultMv)
    ELSE realizePositionDotErrors(sbCache, defaultMp)

AllZero(q) == \A i \in 1..Len(q) : q[i] = 0

\* The mobility forces a call added to the buffer the caller passed.
AddedMobilityForces ==
    [j \in 1..Len(mobilityForces) |-> mobilityForces[j] - ret.args[6][j]]

\* Twice the power of the forces of the last call: torque . angular velocity
\* + force . origin velocity over the constrained bodies, and mobility force
\* times speed over the constrained mobilities (speeds are in halves).
Power2 ==
    LET RECURSIVE BodySum(_), MobSum(_, _)
        BodySum(i) ==
            IF i = 0 THEN 0
            ELSE BodySum(i - 1)
                 + Dot(bodyForcesInA[i][1], sbCache.V[myConstrainedBodies[i]][1])
                 + Dot(bodyForcesInA[i][2], sbCache.V[myConstrainedBodies[i]][2])
        MobSum(M, which) ==
            IF M < 0 THEN 0
            ELSE IF which < 0
                 THEN (IF M = 0 THEN 0 ELSE MobSum(M - 1, getNumConstrainedUOf(M - 1) - 1))
            ELSE MobSum(M, which - 1)
                 + AddedMobilityForces[getConstrainedUIndex(M, which) + 1]
                   * getOneU(sbCache, M, which)
        lastM == Len(myConstrainedMobilizers) - 1
    IN  Halves(BodySum(Len(bodyForcesInA)))
        + (IF lastM < 0 THEN 0 ELSE MobSum(lastM, getNumConstrainedUOf(lastM) - 1))

\* multipliers . errors
Weighted(lambda, q) ==
    LET RECURSIVE Sum(_)
        Sum(i) == IF i = 0 THEN 0 ELSE Sum(i - 1) + lambda[i] * q[i]
    IN  Sum(Len(q))

\* C17 as stated: for every kind, ConstantSpeed included, whenever the
\* velocity-level error is zero the constraint forces of any multipliers
\* have zero total power.
C17_AsStated ==
    (kind \in BuiltInKinds /\ ForcesApplied /\ VelocityError.ok
        /\ AllZero(VelocityError.out)) => Power2 = 0

\* C17: the total power of the constraint forces is the multipliers times
\* the velocity-level errors for every body-force kind, hence zero whenever
\* that error is zero; for ConstantSpeed it is the multiplier times the
\* mobility's speed u = verr + s, which at zero error is lambda * s.
C17_PowerIsMultipliersTimesSpeeds ==
    (kind \in BuiltInKinds /\ ForcesApplied /\ VelocityError.ok) =>
        /\ kind \in BodyForceKinds =>
              /\ Power2 = Weighted(ret.args[4], VelocityError.out)
              /\ AllZero(VelocityError.out) => Power2 = 0
        /\ kind = "ConstantSpeed" =>
              Power2 = ret.args[4][1] * (VelocityError.out[1] + geom.prescribedSpeed)

C17_Witness ==
    /\ kind = "Weld" /\ ForcesApplied /\ sbCache = RigidMotion
    /\ VelocityError.ok /\ AllZero(VelocityError.out)
    /\ \E i \in 1..2 : Dot(bodyForcesInA[i][2], sbCache.V[myConstrainedBodies[i]][2]) # 0
    /\ Power2 = 0

\* The caches a time h after those of c, to first order along the motion c
\* describes: each body frame turns with its angular velocity and moves with
\* its origin velocity, velocities change by the accelerations, and the
\* mobility speeds by udot.
Advance(c, h) ==
    LET Turned(R, w) ==
            MatT(<<VAdd(Col(R, 1), VScale(h, Cross(w, Col(R, 1)))),
                   VAdd(Col(R, 2), VScale(h, Cross(w, Col(R, 2)))),
                   VAdd(Col(R, 3), VScale(h, Cross(w, Col(R, 3))))>>)
    IN  [X |-> [b \in Bodies |->
                  [R |-> Turned(c.X[b].R, c.V[b][1]),
                   T |-> VAdd(c.X[b].T, VScale(h, c.V[b][2]))]],
         V |-> [b \in Bodies |->
                  <<VAdd(c.V[b][1], VScale(h, c.A[b][1])),
                    VAdd(c.V[b][2], VScale(h, c.A[b][2]))>>],
         A |-> c.A,
         u |-> [b \in Bodies |->
                  [i \in 1..MobilizerNumU(b) |-> c.u[b][i] + h * c.udot[b][i]]],
         udot |-> c.udot]

\* Sixty times the derivative at h = 0 of each element of E(h), by the
\* seven-point central difference, exact for polynomials up to degree six.
Derivative60(E(_)) ==
    [i \in 1..Len(E(0)) |->
        45 * (E(1)[i] - E(0 - 1)[i]) - 9 * (E(2)[i] - E(0 - 2)[i])
            + (E(3)[i] - E(0 - 3)[i])]

Times60(q) == [i \in 1..Len(q) |-> 60 * q[i]]

\* The error one level down from the routine op, along the motion.
PositionErrorsAt(h) == realizePositionErrors(Advance(sbCache, h), defaultMp).out
PositionDotErrorsAt(h) == realizePositionDotErrors(Advance(sbCache, h), defaultMp).out
VelocityErrorsAt(h) == realizeVelocityErrors(Advance(sbCache, h), defaultMv).out

\* For the kinds of ks, what each derivative routine returned is the time
\* derivative of the error one level down.
DifferentiationConsistent(ks) ==
    (kind \in ks /\ ret.ok) =>
        /\ ret.op = "realizePositionDotErrors"
              => Times60(outbuf) = Derivative60(PositionErrorsAt)
        /\ ret.op = "realizePositionDotDotErrors"
              => Times60(outbuf) = Derivative60(PositionDotErrorsAt)
        /\ ret.op = "realizeVelocityDotErrors"
              => Times60(outbuf) = Derivative60(VelocityErrorsAt)

\* C18 as stated: for each constraint kind, along any trajectory, pverr is
\* the time derivative of perr, paerr the time derivative of pverr, and
\* vaerr the time derivative of verr.
C18_AsStated == DifferentiationConsistent(BuiltInKinds)

\* The calls that evaluate errors, apply forces or read the constraint.
ReadingCalls ==
    {"realizePositionErrors", "realizePositionDotErrors", "realizePositionDotDotErrors",
     "realizeVelocityErrors", "realizeVelocityDotErrors",
     "calcConstraintForcesFromMultipliers", "getNumConstrainedBodies",
     "getConstraintEquationSlots"}

Refused(B, old) ==
    Len(old) # Len(myConstrainedBodies) \/ ~(0 <= B /\ B < Len(myConstrainedBodies))

\* new is old with add added to entry B and every other entry as it was.
OnlyEntryAdded(new, old, B, add) ==
    /\ Len(new) = Len(old)
    /\ \A i \in 1..Len(old) :
          new[i] = IF i = B + 1
                   THEN <<VAdd(old[i][1], add[1]), VAdd(old[i][2], add[2])>>
                   ELSE old[i]

\* C20: addInStationForce(s, B, p, f, buf) and addInBodyTorque(s, B, t, buf)
\* add to what buf holds: only entry B changes, by ((R_AB p) x f, f) resp.
\* (t, 0), so addInBodyTorque leaves the force of entry B as it was; both
\* fail if buf's size is not the number of constrained bodies or B is out
\* of range.
C20_AccumulateIntoEntryB ==
    /\ ret.op = "addInStationForce" =>
          LET B == ret.args[1]
              p == ret.args[2]
              f == ret.args[3]
              old == ret.args[4]
          IN  /\ Refused(B, old) => ~ret.ok
              /\ ret.ok =>
                    LET R_AB == sbCache.X[myConstrainedBodies[B + 1]].R IN
                    OnlyEntryAdded(bodyForcesInA, old, B, <<Cross(MatVec(R_AB, p), f), f>>)
    /\ ret.op = "addInBodyTorque" =>
          LET B == ret.args[1]
              t == ret.args[2]
              old == ret.args[3]
          IN  /\ Refused(B, old) => ~ret.ok
              /\ ret.ok =>
                    /\ OnlyEntryAdded(bodyForcesInA, old, B, <<t, Zero3>>)
                    /\ bodyForcesInA[B + 1][2] = old[B + 1][2]

C20_Witness ==
    /\ ret.op = "addInBodyTorque" /\ ret.ok
    /\ ret.args[1] = 1 /\ ret.args[3][2] = Used
    /\ bodyForcesInA[1] = Used
    /\ bodyForcesInA[2] = <<VAdd(Used[1], ret.args[2]), Used[2]>>

(***************************************************************************)
(* Claims about the station queries (SpecStations).                        *)
(***************************************************************************)
\* C21: calcStationVelocity returns v_B + w x r and calcStationAcceleration
\* returns a_B + alpha x r + w x (w x r), r = R_AB p_B being the lever arm
\* in the ancestor frame and the centripetal term grouped as w x (w x r);
\* for p_B = 0 they return the body origin's velocity and acceleration.
\* Both are the time derivatives of the level below along the motion.
C21_StationVelocityAndAcceleration ==
    (ret.op \in {"calcStationVelocity", "calcStationAcceleration"} /\ ret.ok) =>
        LET B == ret.args[1]
            p_B == ret.args[2]
            b == myConstrainedBodies[B + 1]
            r == MatVec(sbCache.X[b].R, p_B)
            w == sbCache.V[b][1]
            v_B == sbCache.V[b][2]
            alpha == sbCache.A[b][1]
            a_B == sbCache.A[b][2]
            LocationAt(h) == calcStationLocationIn(Advance(sbCache, h), B, p_B)
            VelocityAt(h) == calcStationVelocityIn(Advance(sbCache, h), B, p_B)
        IN  /\ ret.op = "calcStationVelocity" =>
                  /\ ret.val = VAdd(v_B, Cross(w, r))
                  /\ Times60(ret.val) = Derivative60(LocationAt)
                  /\ p_B = Zero3 => ret.val = v_B
            /\ ret.op = "calcStationAcceleration" =>
                  /\ ret.val = VAdd(VAdd(a_B, Cross(alpha, r)), Cross(w, Cross(w, r)))
                  /\ Times60(ret.val) = Derivative60(VelocityAt)
                  /\ p_B = Zero3 => ret.val = a_B

C21_Witness ==
    /\ ret.op = "calcStationAcceleration" /\ ret.ok
    /\ ret.args[2] = <<0, 2, 1>>
    /\ LET b == myConstrainedBodies[ret.args[1] + 1]
           r == MatVec(sbCache.X[b].R, ret.args[2])
           w == sbCache.V[b][1]
       IN  /\ Cross(w, Cross(w, r)) # Zero3
           /\ ret.val # VAdd(sbCache.A[b][2], Cross(sbCache.A[b][1], r))

(***************************************************************************)
(* Claims relating the kinds to one another (SpecKinematics).              *)
(***************************************************************************)
\* A call in progress on a zeroed body-force buffer of the right size.
OnZeroedBuffer ==
    [ok |-> TRUE, err |-> "", body |-> [i \in 1..Len(myConstrainedBodies) |-> ZeroSpatial],
     mob |-> <<>>, applied |-> {}]

\* The entrywise sum of two body-force buffers.
BufferSum(a, b) == [i \in 1..Len(a) |-> SAdd(a[i], b[i])]

\* The ConstantOrientation with the rotations of a Weld's frames and the
\* Ball with their origins.
WeldOrientation == [defaultRB |-> geom.defaultFrameB.R, defaultRF |-> geom.defaultFrameF.R]
WeldBall == [defaultPoint1 |-> geom.defaultFrameB.T, defaultPoint2 |-> geom.defaultFrameF.T]

\* C22: Weld is ConstantOrientation and Ball together: on the same bodies,
\* with ConstantOrientation given the rotations of Weld's frames and Ball
\* their origins, Weld's perr, pverr and paerr are ConstantOrientation's
\* three entries followed by Ball's three, and Weld's body forces for
\* (l0..l5) are ConstantOrientation's for (l0,l1,l2) plus Ball's for
\* (l3,l4,l5).
C22_WeldIsOrientationPlusBall ==
    (kind = "Weld" /\ ret.ok) =>
        /\ ret.op = "realizePositionErrors" =>
              outbuf =
                ConstantOrientationImpl_realizePositionErrorsVirtualOn(
                    WeldOrientation, sbCache, 3).out
                \o BallImpl_realizePositionErrorsVirtualOn(WeldBall, sbCache, 3).out
        /\ ret.op = "realizePositionDotErrors" =>
              outbuf =
                ConstantOrientationImpl_realizePositionDotErrorsVirtualOn(
                    WeldOrientation, sbCache, 3).out
                \o BallImpl_realizePositionDotErrorsVirtualOn(WeldBall, sbCache, 3).out
        /\ ret.op = "realizePositionDotDotErrors" =>
              outbuf =
                ConstantOrientationImpl_realizePositionDotDotErrorsVirtualOn(
                    WeldOrientation, sbCache, 3).out
                \o BallImpl_realizePositionDotDotErrorsVirtualOn(WeldBall, sbCache, 3).out
        /\ ForcesApplied =>
              bodyForcesInA =
                BufferSum(
                    ConstantOrientationImpl_applyPositionConstraintForcesVirtualOn(
                        WeldOrientation, 3, Vec3At(ret.args[4], 0), OnZeroedBuffer).body,
                    BallImpl_applyPositionConstraintForcesVirtualOn(
                        WeldBall, 3, Vec3At(ret.args[4], 3), OnZeroedBuffer).body)

C22_Witness ==
    /\ kind = "Weld" /\ ForcesApplied /\ sbCache = Moving
    /\ geom.defaultFrameF.T = <<2, 0, 1>>
    /\ ConstantOrientationImpl_applyPositionConstraintForcesVirtualOn(
           WeldOrientation, 3, Vec3At(ret.args[4], 0), OnZeroedBuffer).body[2][1] # Zero3
    /\ BallImpl_applyPositionConstraintForcesVirtualOn(
           WeldBall, 3, Vec3At(ret.args[4], 3), OnZeroedBuffer).body[2] # ZeroSpatial
    /\ bodyForcesInA[2][1] # Zero3 /\ bodyForcesInA[2][2] # Zero3

\* The kinds that apply a pair of station forces.
StationForceKinds == {"Rod", "PointInPlane", "PointOnLine", "Ball", "Weld", "NoSlip1D"}

\* The material point C of a Ball's body B coincident with the point S of
\* its body F, in B's frame.
BallCoincidentPoint ==
    XformInvPoint(sbCache.X[myConstrainedBodies[roles.b[1] + 1]],
                  StationInA(roles.b[2], geom.defaultPoint2))

\* C23: Ball applies +lambda to body F at its point S and -lambda to body B
\* at the material point C = ~X_AB * p_AS coincident with S, not at B's
\* nominal point P: both forces act at one place (X_AB * C = p_AS) and the
\* pair has no moment about the ancestor origin in any configuration, also
\* when perr is not zero.  The force pairs of Rod, PointInPlane,
\* PointOnLine, Weld and NoSlip1D have no such moment either.
C23_ForcePairActsAtOnePoint ==
    /\ (kind = "Ball" /\ ForcesApplied) =>
          LET B == roles.b[1]
              F == roles.b[2]
              lambda == Vec3At(ret.args[4], 0)
              R_AB == sbCache.X[myConstrainedBodies[B + 1]].R
              R_AF == sbCache.X[myConstrainedBodies[F + 1]].R
              C == BallCoincidentPoint
          IN  /\ StationInA(B, C) = StationInA(F, geom.defaultPoint2)
              /\ bodyForcesInA[F + 1] =
                    <<Cross(MatVec(R_AF, geom.defaultPoint2), lambda), lambda>>
              /\ bodyForcesInA[B + 1] =
                    <<Cross(MatVec(R_AB, C), VNeg(lambda)), VNeg(lambda)>>
    /\ (kind \in StationForceKinds /\ ForcesApplied) =>
          \A i \in 1..3 : MomentAboutA(bodyForcesInA)[i] = 0

C23_Witness ==
    /\ kind = "Ball" /\ ForcesApplied
    /\ BallCoincidentPoint # geom.defaultPoint1
    /\ StationInA(roles.b[1], geom.defaultPoint1) # StationInA(roles.b[2], geom.defaultPoint2)
    /\ bodyForcesInA[roles.b[1] + 1][2] = VNeg(Vec3At(ret.args[4], 0))
    /\ bodyForcesInA[roles.b[1] + 1][1] # Zero3

\* A call in progress on a body-force buffer of the right size that still
\* holds what an earlier use left in it.
OnUsedBuffer ==
    [ok |-> TRUE, err |-> "", body |-> [i \in 1..Len(myConstrainedBodies) |-> Used],
     mob |-> <<>>, applied |-> {}]

\* C24: NoSlip1D has no position-level equation (mp = 0, mv = 1); for the
\* multiplier lambda it applies +lambda*n_A to movingBody1 and -lambda*n_A
\* to movingBody0, both at the material points coincident with the contact
\* point P fixed in the case body, and leaves the case body's entry of the
\* body-force buffer as it was when the case body is neither moving body.
C24_NoSlipForcesOnMovingBodiesOnly ==
    (kind = "NoSlip1D" /\ ForcesApplied) =>
        LET caseBody == roles.b[1]
            movingBody0 == roles.b[2]
            movingBody1 == roles.b[3]
            X_AC == sbCache.X[myConstrainedBodies[caseBody + 1]]
            X_AB0 == sbCache.X[myConstrainedBodies[movingBody0 + 1]]
            X_AB1 == sbCache.X[myConstrainedBodies[movingBody1 + 1]]
            p_AP == XformPoint(X_AC, geom.defaultContactPoint)
            p_P0 == XformInvPoint(X_AB0, p_AP)
            p_P1 == XformInvPoint(X_AB1, p_AP)
            f == VScale(ret.args[4][1], MatVec(X_AC.R, geom.defaultNoSlipDirection))
            onUsed == NoSlip1DImpl_applyVelocityConstraintForcesVirtual(
                          1, ret.args[4], OnUsedBuffer)
        IN  /\ <<defaultMp, defaultMv>> = <<0, 1>>
            /\ <<cInfo.mp, cInfo.mv>> = <<0, 1>>
            /\ ret.applied = {"v"}
            /\ XformPoint(X_AB0, p_P0) = p_AP /\ XformPoint(X_AB1, p_P1) = p_AP
            /\ bodyForcesInA[movingBody1 + 1] = <<Cross(MatVec(X_AB1.R, p_P1), f), f>>
            /\ bodyForcesInA[movingBody0 + 1] =
                  <<Cross(MatVec(X_AB0.R, p_P0), VNeg(f)), VNeg(f)>>
            /\ caseBody \notin {movingBody0, movingBody1} =>
                  /\ bodyForcesInA[caseBody + 1] = ZeroSpatial
                  /\ onUsed.ok /\ onUsed.body[caseBody + 1] = Used

C24_Witness ==
    /\ kind = "NoSlip1D" /\ ForcesApplied /\ sbCache = Moving
    /\ roles.b[1] \notin {roles.b[2], roles.b[3]}
    /\ bodyForcesInA[roles.b[1] + 1] = ZeroSpatial
    /\ bodyForcesInA[roles.b[3] + 1][2] # Zero3
    /\ bodyForcesInA[roles.b[3] + 1][1] # Zero3

\* x, y, z are a right-handed triad of mutually perpendicular unit vectors.
RightHandedTriad(x, y, z) ==
    /\ Dot(x, z) = 0 /\ Dot(y, z) = 0 /\ Dot(x, y) = 0
    /\ Dot(x, x) = 1 /\ Dot(y, y) = 1
    /\ y = Cross(z, x)

\* C25: once the topology of a PointOnLine with line direction z is
\* realized, the cached axes satisfy x.z = 0, y.z = 0, x.y = 0,
\* |x| = |y| = 1 and y = z x x; realizing the topology again with the same
\* line direction gives the same x and y.
C25_PointOnLineAxesAreATriad ==
    /\ []((kind = "PointOnLine" /\ StageRealized(stage, "Topology")) =>
             /\ ~topoCache.nan
             /\ RightHandedTriad(topoCache.x, topoCache.y, geom.defaultLineDirection))
    /\ [][(/\ kind = "PointOnLine"
           /\ ret'.op = "realize" /\ StageRealized(stage', "Topology")
           /\ ~topoCache.nan /\ geom' = geom)
              => <<topoCache.x, topoCache.y>>' = <<topoCache.x, topoCache.y>>]_vars

C25_Witness ==
    /\ kind = "PointOnLine" /\ ret.op = "realize" /\ StageRealized(stage, "Topology")
    /\ geom.defaultLineDirection = <<1, 0, 0>>
    /\ ~topoCache.nan
    /\ topoCache.x # Zero3 /\ topoCache.y = Cross(<<1, 0, 0>>, topoCache.x)

\* The PointInPlane on a PointOnLine's bodies and follower point whose plane
\* has normal n and passes through the point on the line.
PlaneThroughLine(n) ==
    [defaultPlaneNormal |-> n,
     defaultPlaneHeight |-> Dot(geom.defaultPointOnLine, n),
     defaultFollowerPoint |-> geom.defaultFollowerPoint]

\* C26: PointOnLine is two PointInPlane constraints whose planes meet in the
\* line: entry 0 (resp. 1) of its perr, pverr and paerr is the error of the
\* PointInPlane with normal x (resp. y) and height P.x (resp. P.y), P the
\* point on the line, and its body forces for (l0, l1) are the sum of the
\* two PointInPlane force sets for l0 with normal x and l1 with normal y.
C26_PointOnLineIsTwoPlanes ==
    (kind = "PointOnLine" /\ ret.ok) =>
        LET inX == PlaneThroughLine(topoCache.x)
            inY == PlaneThroughLine(topoCache.y)
        IN  /\ ret.op = "realizePositionErrors" =>
                  outbuf =
                    PointInPlaneImpl_realizePositionErrorsVirtualOn(inX, sbCache, 1).out
                    \o PointInPlaneImpl_realizePositionErrorsVirtualOn(inY, sbCache, 1).out
            /\ ret.op = "realizePositionDotErrors" =>
                  outbuf =
                    PointInPlaneImpl_realizePositionDotErrorsVirtualOn(inX, sbCache, 1).out
                    \o PointInPlaneImpl_realizePositionDotErrorsVirtualOn(inY, sbCache, 1).out
            /\ ret.op = "realizePositionDotDotErrors" =>
                  outbuf =
                    PointInPlaneImpl_realizePositionDotDotErrorsVirtualOn(
                        inX, sbCache, 1).out
                    \o PointInPlaneImpl_realizePositionDotDotErrorsVirtualOn(
                           inY, sbCache, 1).out
            /\ ForcesApplied =>
                  bodyForcesInA =
                    BufferSum(
                        PointInPlaneImpl_applyPositionConstraintForcesVirtualOn(
                            inX, 1, <<ret.args[4][1]>>, OnZeroedBuffer).body,
                        PointInPlaneImpl_applyPositionConstraintForcesVirtualOn(
                            inY, 1, <<ret.args[4][2]>>, OnZeroedBuffer).body)

C26_Witness ==
    /\ kind = "PointOnLine" /\ ForcesApplied /\ sbCache = Moving
    /\ ret.args[4][1] # 0 /\ ret.args[4][2] # 0
    /\ PointInPlaneImpl_applyPositionConstraintForcesVirtualOn(
           PlaneThroughLine(topoCache.x), 1, <<ret.args[4][1]>>,
           OnZeroedBuffer).body[2][2] # Zero3
    /\ PointInPlaneImpl_applyPositionConstraintForcesVirtualOn(
           PlaneThroughLine(topoCache.y), 1, <<ret.args[4][2]>>,
           OnZeroedBuffer).body[2][2] # Zero3
    /\ bodyForcesInA[2][1] # Zero3

\* The calls that evaluate errors, by level.
PositionErrorCalls ==
    {"realizePositionErrors", "realizePositionDotErrors", "realizePositionDotDotErrors"}
VelocityErrorCalls == {"realizeVelocityErrors", "realizeVelocityDotErrors"}

\* The number of equations a kind's error routines of one level assert, or
\* -1 where the kind defines no routine of that level.
FixedCount(k, op) ==
    IF op \in PositionErrorCalls
    THEN CASE k \in {"Rod", "PointInPlane", "ConstantAngle"} -> 1
           [] k = "PointOnLine" -> 2
           [] k \in {"Ball", "ConstantOrientation"} -> 3
           [] k = "Weld" -> 6
           [] OTHER -> -1
    ELSE CASE k \in {"NoSlip1D", "ConstantSpeed"} -> 1
           [] OTHER -> -1

\* C27: an error routine of a built-in kind writes exactly the kind's
\* equation count of entries of the caller's array and nothing else: the
\* state, the construction constants, the topology cache and the rest of the
\* constraint stay as they were; called with another count it fails without
\* writing.
C27_ErrorRoutinesWriteTheirCountOnly ==
    /\ [](ret.op \in PositionErrorCalls \cup VelocityErrorCalls =>
            LET n == FixedCount(kind, ret.op) IN
            /\ ret.ok => n >= 0 /\ ret.args[1] = n /\ Len(outbuf) = n
            /\ ~ret.ok => outbuf = <<>>
            /\ ret.args[1] # n => ~ret.ok /\ outbuf = <<>>)
    /\ [][ret'.op \in PositionErrorCalls \cup VelocityErrorCalls =>
            /\ UNCHANGED <<sbCache, kindVars, topoCache, stage, cInfo, indexVars, countVars>>
            /\ <<bodyForcesInA, mobilityForces, generalizedForces>>' = <<<<>>, <<>>, <<>>>>]_vars

C27_Witness ==
    /\ kind = "Weld" /\ ret.op = "realizePositionDotErrors" /\ ret.ok
    /\ sbCache = Moving /\ ret.args[1] = 6
    /\ Len(outbuf) = 6 /\ \A i \in {1, 4} : outbuf[i] # 0

\* Sets of spatial velocities of the bodies, in A.
BodyVelocities ==
    {Moving.V, RigidMotion.V,
     [b \in Bodies |-> <<<<b, 1, 0>>, <<0, 0 - 1, b + 1>>>>]}

\* The kind's velocity-level error routine on the caches c.
VelocityErrorIn(c) ==
    IF kind = "NoSlip1D" THEN realizeVelocityErrors(c, 1)
    ELSE realizePositionDotErrors(c, defaultMp)

\* torque_B . w_B + force_B . v_B summed over the constrained bodies, for
\* the body forces buf and the body velocities V.
BodyPower(buf, V) ==
    LET RECURSIVE Sum(_)
        Sum(i) ==
            IF i = 0 THEN 0
            ELSE Sum(i - 1) + Dot(buf[i][1], V[myConstrainedBodies[i]][1])
                            + Dot(buf[i][2], V[myConstrainedBodies[i]][2])
    IN  Sum(Len(buf))

\* C28: force application is the transpose of the velocity-error map: for
\* Rod, PointInPlane, PointOnLine, ConstantAngle, Ball, ConstantOrientation,
\* Weld and NoSlip1D, in every configuration, for every set of body
\* velocities and every multiplier vector, the sum over the constrained
\* bodies of torque . w + force . v of the applied forces is the sum of
\* lambda_i e_i, e being the kind's velocity-level error for the same
\* configuration and velocities (errors are in halves).
C28_ForcesTransposeVelocityErrors ==
    (kind \in BodyForceKinds /\ ForcesApplied) =>
        \A V \in BodyVelocities :
            LET e == VelocityErrorIn([sbCache EXCEPT !.V = V])
            IN  /\ e.ok
                /\ Halves(BodyPower(bodyForcesInA, V)) = Weighted(ret.args[4], e.out)

C28_Witness ==
    /\ kind = "ConstantAngle" /\ ForcesApplied /\ sbCache = AlignedFar
    /\ ret.args[4][1] # 0
    /\ \E V \in BodyVelocities :
          /\ V # sbCache.V
          /\ VelocityErrorIn([sbCache EXCEPT !.V = V]).out[1] # 0
          /\ BodyPower(bodyForcesInA, V) # 0

\* The mobility-force vector holding f at the slot of mobility which of
\* constrained mobilizer M and 0 elsewhere.
OneMobilityForce(M, which, f) ==
    [j \in 1..getNumConstrainedU |->
        IF j = getConstrainedUIndex(M, which) + 1 THEN f ELSE 0]

\* A buffer pair as addInOneMobilityForce is handed it.
Handed(cb) == [ok |-> TRUE, err |-> "", body |-> cb.body, mob |-> cb.mob, applied |-> {}]

\* C29 as stated: for a ConstantSpeed constraint on a mobility of its
\* mobilizer, calcConstraintForcesFromMultipliers(s, 0, 1, 0, lambda, ...)
\* succeeds whatever buffers the caller passes, empty ones included, and
\* leaves lambda at the slot of the constrained mobility, 0 in the other
\* slots and zero in every body-force entry; addInOneMobilityForce itself
\* fails when the mobility-force vector's size is not the number of
\* constrained u's or the mobility is out of range for the mobilizer.
C29_AsStated ==
    (/\ kind = "ConstantSpeed"
     /\ ret.op = "calcConstraintForcesFromMultipliers"
     /\ <<ret.args[1], ret.args[2], ret.args[3]>> = <<0, 1, 0>>
     /\ StageRealized(stage, "Position")) =>
        LET M == roles.m[1]
            which == geom.whichMobility
            inRange == 0 <= which /\ which < getNumConstrainedUOf(M)
        IN  /\ inRange =>
                  /\ ret.ok
                  /\ mobilityForces = OneMobilityForce(M, which, ret.args[4][1])
                  /\ \A i \in 1..Len(bodyForcesInA) : bodyForcesInA[i] = ZeroSpatial
            /\ \A cb \in CallerBuffers :
                  (Len(cb.mob) # getNumConstrainedU \/ ~inRange)
                      => ~addInOneMobilityForce(M, which, 1, Handed(cb)).ok

\* C30 as stated: Rod's setPointDisplayRadius(r) with r < 0 means "use the
\* default radius": the stored point radius is then the negative value, -1,
\* that a freshly constructed Rod holds; with r >= 0 the getter returns r
\* (0 meaning the point is not displayed).
C30_AsStated ==
    (kind = "Rod" /\ ret.op = "set" /\ ret.applied = {"pointRadius"}) =>
        /\ ret.val < 0 =>
              /\ disp.pointRadius = DispInit("Rod").pointRadius
              /\ disp.pointRadius < 0
        /\ ret.val >= 0 => RodImpl_getPointDisplayRadius(disp) = ret.val

====
